---- MODULE Spec2Model ----
(***************************************************************************)
(* Earning limiter of luna-back: DailyEarningService over the tables       *)
(* daily_earnings, earning_partitions, earning_history and users.          *)
(* USD amounts are Python floats (IEEE-754 binary64) and are modelled bit  *)
(* for bit; LUNA amounts and balances are integers.                        *)
(***************************************************************************)
EXTENDS Integers, Sequences, FiniteSets, TLC

\* Body(x) with x computed once, before Body
Let(x, Body(_)) == CHOOSE r \in {Body(v) : v \in {x}} : TRUE

Min(a, b) == IF a < b THEN a ELSE b

\* ---------- natural numbers of any size: little-endian limbs base 2^15 ----------
LimbBase == 32768
LimbBits == 15

Limb(a, i) == IF 1 <= i /\ i <= Len(a) THEN a[i] ELSE 0

\* a without its zero limbs at the high end
TopLimb(a) == CHOOSE n \in 0..Len(a) : /\ IF n = 0 THEN TRUE ELSE a[n] # 0
                                       /\ \A i \in (n + 1)..Len(a) : a[i] = 0
BNorm(a) == SubSeq(a, 1, TopLimb(a))

\* for 0 <= n < 2^31
BFromInt(n) == BNorm(<<n % LimbBase, (n \div LimbBase) % LimbBase,
                       n \div (LimbBase * LimbBase)>>)

RECURSIVE BToInt(_)
BToInt(a) == IF a = <<>> THEN 0 ELSE a[1] + LimbBase * BToInt(Tail(a))

\* the carry into limb i of a + b: some lower limb overflows and every limb between
\* passes the carry on
AddCarry(a, b, i) ==
    \E j \in 1..(i - 1) : /\ Limb(a, j) + Limb(b, j) >= LimbBase
                          /\ \A k \in (j + 1)..(i - 1) : Limb(a, k) + Limb(b, k) = LimbBase - 1

BAdd(a, b) ==
    BNorm([i \in 1..((IF Len(a) > Len(b) THEN Len(a) ELSE Len(b)) + 1) |->
              (Limb(a, i) + Limb(b, i) + (IF AddCarry(a, b, i) THEN 1 ELSE 0)) % LimbBase])

\* the borrow from limb i of a - b
SubBorrow(a, b, i) ==
    \E j \in 1..(i - 1) : /\ Limb(a, j) < Limb(b, j)
                          /\ \A k \in (j + 1)..(i - 1) : Limb(a, k) = Limb(b, k)

\* a - b for a >= b
BSub(a, b) ==
    BNorm([i \in 1..Len(a) |->
              (LimbBase + a[i] - Limb(b, i) - (IF SubBorrow(a, b, i) THEN 1 ELSE 0))
                  % LimbBase])

\* -1, 0, 1 as a < b, a = b, a > b
TopDifference(a, b) == CHOOSE i \in 1..Len(a) : /\ a[i] # b[i]
                                                /\ \A k \in (i + 1)..Len(a) : a[k] = b[k]
BCmp(a, b) == IF Len(a) < Len(b) THEN -1
              ELSE IF Len(a) > Len(b) THEN 1
              ELSE IF \A i \in 1..Len(a) : a[i] = b[i] THEN 0
              ELSE IF a[TopDifference(a, b)] < b[TopDifference(a, b)] THEN -1
              ELSE 1

\* a * k for 0 <= k < LimbBase: the low halves of the limb products plus their high
\* halves one limb up
BMulSmall(a, k) ==
    BAdd([i \in 1..Len(a) |-> (a[i] * k) % LimbBase],
         <<0>> \o [i \in 1..Len(a) |-> (a[i] * k) \div LimbBase])

\* the sums over i of the low and of the high halves of a[i] * b[col + 1 - i]
RECURSIVE MulLow(_, _, _, _)
MulLow(a, b, col, i) ==
    IF i > Len(a) THEN 0
    ELSE ((a[i] * Limb(b, col + 1 - i)) % LimbBase) + MulLow(a, b, col, i + 1)

RECURSIVE MulHigh(_, _, _, _)
MulHigh(a, b, col, i) ==
    IF i > Len(a) THEN 0
    ELSE ((a[i] * Limb(b, col + 1 - i)) \div LimbBase) + MulHigh(a, b, col, i + 1)

MulColumn(a, b, col) == MulLow(a, b, col, 1) + MulHigh(a, b, col - 1, 1)

\* a * b, for a and b of up to 2^15 limbs
BMul(a, b) ==
    BAdd([col \in 1..(Len(a) + Len(b)) |-> MulColumn(a, b, col) % LimbBase],
         <<0>> \o [col \in 1..(Len(a) + Len(b)) |-> MulColumn(a, b, col) \div LimbBase])

\* the limbs of a from position i upward, modulo k
RECURSIVE BRemAt(_, _, _)
BRemAt(a, k, i) == IF i > Len(a) THEN 0 ELSE (BRemAt(a, k, i + 1) * LimbBase + a[i]) % k

\* quotient and remainder of a by k, 0 < k < LimbBase
BDivSmall(a, k) ==
    [q |-> BNorm([i \in 1..Len(a) |-> (BRemAt(a, k, i + 1) * LimbBase + a[i]) \div k]),
     r |-> BRemAt(a, k, 1)]

\* a * 2^n
BShl(a, n) ==
    BNorm([i \in 1..(Len(a) + (n \div LimbBits) + 1) |->
              ((Limb(a, i - (n \div LimbBits)) * 2 ^ (n % LimbBits)) % LimbBase)
              + ((Limb(a, i - (n \div LimbBits) - 1) * 2 ^ (n % LimbBits)) \div LimbBase)])

\* floor(a / 2^n)
BShr(a, n) ==
    BNorm([i \in 1..(Len(a) - (n \div LimbBits)) |->
              (Limb(a, i + (n \div LimbBits)) \div 2 ^ (n % LimbBits))
              + (Limb(a, i + (n \div LimbBits) + 1) % 2 ^ (n % LimbBits))
                    * 2 ^ (LimbBits - (n % LimbBits))])

\* number of bits of a limb
IntBitLen(n) == CHOOSE k \in 0..LimbBits : IF k = 0 THEN n = 0
                                           ELSE 2 ^ (k - 1) <= n /\ n < 2 ^ k
BBitLen(a) == IF a = <<>> THEN 0 ELSE LimbBits * (Len(a) - 1) + IntBitLen(a[Len(a)])

\* ---------- IEEE-754 binary64 (finite, normal range), round-to-nearest-even ----------
\* a float is s * m * 2^e with m = 0 or m of exactly 53 bits
MantBits == 53
FZero == [s |-> 1, m |-> <<>>, e |-> 0]

\* the float nearest to s * n * 2^e (+ an excess below the last bit of n when sticky)
\* t is n without its q lowest bits, c compares the bits cut off with half a unit of t
FRoundCut(s, e, q, t, c, sticky) ==
    Let(IF c = 1 \/ (c = 0 /\ (sticky \/ t[1] % 2 = 1)) THEN BAdd(t, <<1>>) ELSE t,
        LAMBDA t2 : IF BBitLen(t2) > MantBits
                    THEN [s |-> s, m |-> BShr(t2, 1), e |-> e + q + 1]
                    ELSE [s |-> s, m |-> t2, e |-> e + q])

FRoundLen(s, n, e, sticky, len) ==
    IF len = 0 THEN FZero
    ELSE IF len <= MantBits
         THEN [s |-> s, m |-> BShl(n, MantBits - len), e |-> e - (MantBits - len)]
    ELSE Let(BShr(n, len - MantBits),
             LAMBDA t : FRoundCut(s, e, len - MantBits, t,
                                  BCmp(BSub(n, BShl(t, len - MantBits)),
                                       BShl(<<1>>, len - MantBits - 1)),
                                  sticky))

FRound(s, n, e, sticky) == FRoundLen(s, n, e, sticky, BBitLen(n))

FFromInt(n) == IF n < 0 THEN FRound(-1, BFromInt(-n), 0, FALSE)
                        ELSE FRound(1, BFromInt(n), 0, FALSE)

FNeg(a) == IF a.m = <<>> THEN a ELSE [a EXCEPT !.s = -a.s]

\* sa * x * 2^e0 + sb * y * 2^e0
FAddAligned(sa, sb, x, y, e0) ==
    IF sa = sb THEN FRound(sa, BAdd(x, y), e0, FALSE)
    ELSE Let(BCmp(x, y),
             LAMBDA c : IF c = 0 THEN FZero
                        ELSE IF c = 1 THEN FRound(sa, BSub(x, y), e0, FALSE)
                        ELSE FRound(sb, BSub(y, x), e0, FALSE))

FAdd(a, b) ==
    IF a.m = <<>> THEN b
    ELSE IF b.m = <<>> THEN a
    ELSE FAddAligned(a.s, b.s, BShl(a.m, a.e - (IF a.e < b.e THEN a.e ELSE b.e)),
                     BShl(b.m, b.e - (IF a.e < b.e THEN a.e ELSE b.e)),
                     IF a.e < b.e THEN a.e ELSE b.e)

FSub(a, b) == FAdd(a, FNeg(b))

FMul(a, b) == IF a.m = <<>> \/ b.m = <<>> THEN FZero
              ELSE FRound(a.s * b.s, BMul(a.m, b.m), a.e + b.e, FALSE)

\* -1, 0, 1 as a < b, a = b, a > b
FCmp(a, b) ==
    IF a.m = <<>> THEN (IF b.m = <<>> THEN 0 ELSE -b.s)
    ELSE IF b.m = <<>> THEN a.s
    ELSE IF a.s # b.s THEN a.s
    ELSE a.s * BCmp(BShl(a.m, a.e - (IF a.e < b.e THEN a.e ELSE b.e)),
                    BShl(b.m, b.e - (IF a.e < b.e THEN a.e ELSE b.e)))

FLt(a, b) == FCmp(a, b) = -1
FLe(a, b) == FCmp(a, b) # 1
FGt(a, b) == FCmp(a, b) = 1
FGe(a, b) == FCmp(a, b) # -1
FMin(a, b) == IF FLt(b, a) THEN b ELSE a
FMax(a, b) == IF FGt(b, a) THEN b ELSE a

\* odd part of a mantissa: m = odd * 2^tz
ZeroLimbs(m) == CHOOSE j \in 0..(Len(m) - 1) : m[j + 1] # 0 /\ \A i \in 1..j : m[i] = 0
IntTrailingZeros(v) == CHOOSE k \in 0..(LimbBits - 1) : v % (2 ^ (k + 1)) = 2 ^ k
BTrailingZeros(m) == LimbBits * ZeroLimbs(m) + IntTrailingZeros(m[ZeroLimbs(m) + 1])
BOddPart(m) == Let(BTrailingZeros(m), LAMBDA tz : [odd |-> BShr(m, tz), tz |-> tz])

\* long division, one limb v of the dividend at a time: R = r * 2^15 + v is divided by
\* b, whose highest limb is at least 2^14; the digit is estimated from the two highest
\* limbs of R and the highest of b, which overshoots by 2 at most
BDivDigit(R, b, qh) ==
    IF BCmp(BMulSmall(b, qh), R) <= 0 THEN qh
    ELSE IF BCmp(BMulSmall(b, qh - 1), R) <= 0 THEN qh - 1
    ELSE qh - 2

BDivStep(qr, v, b) ==
    Let(IF qr.r = <<>> THEN (IF v = 0 THEN <<>> ELSE <<v>>) ELSE <<v>> \o qr.r,
        LAMBDA R :
            Let(BDivDigit(R, b,
                          Min((Limb(R, Len(b) + 1) * LimbBase + Limb(R, Len(b)))
                                  \div b[Len(b)],
                              LimbBase - 1)),
                LAMBDA digit : [q |-> <<digit>> \o qr.q,
                                r |-> BSub(R, BMulSmall(b, digit))]))

\* quotient and remainder of the limbs of a from position i upward by b; the limbs
\* above position top are fewer than the limbs of b and so are a remainder as they are
RECURSIVE BDivLimbs(_, _, _, _)
BDivLimbs(a, b, i, top) ==
    IF i > top THEN [q |-> <<>>, r |-> SubSeq(a, top + 1, Len(a))]
    ELSE Let(BDivLimbs(a, b, i + 1, top), LAMBDA qr : BDivStep(qr, a[i], b))

BDivNormal(a, b) ==
    Let(BDivLimbs(a, b, 1, IF Len(a) < Len(b) THEN 0 ELSE Len(a) - Len(b) + 1),
        LAMBDA d : [q |-> BNorm(d.q), exact |-> d.r = <<>>])

BDivLong(a, b, shift) == BDivNormal(BShl(a, shift), BShl(b, shift))

BDiv(a, b) ==
    IF Len(b) = 1
    THEN Let(BDivSmall(a, b[1]), LAMBDA d : [q |-> d.q, exact |-> d.r = 0])
    ELSE BDivLong(a, b, LimbBits - IntBitLen(b[Len(b)]))

\* a / b, b nonzero: 56 or more quotient bits and a sticky remainder, then one rounding
FDiv(a, b) ==
    IF a.m = <<>> THEN FZero
    ELSE Let(BOddPart(b.m),
             LAMBDA o : Let(BDiv(BShl(a.m, 60), o.odd),
                            LAMBDA d : FRound(a.s * b.s, d.q, a.e - 60 - b.e - o.tz,
                                              ~d.exact)))

\* the magnitude m * 2^e, e < 0, rounded half-even to an integer
BRoundShr(m, n) ==
    Let(BShr(m, n),
        LAMBDA q : Let(BCmp(BSub(m, BShl(q, n)), BShl(<<1>>, n - 1)),
                       LAMBDA c : IF c = 1 \/ (c = 0 /\ Limb(q, 1) % 2 = 1)
                                  THEN BAdd(q, <<1>>) ELSE q))

\* int(x): truncation toward zero
FTrunc(a) == IF a.m = <<>> THEN 0
             ELSE IF a.e >= 0 THEN a.s * BToInt(BShl(a.m, a.e))
             ELSE a.s * BToInt(BShr(a.m, -a.e))

\* math.floor(x)
FFloor(a) ==
    IF a.s = 1 \/ a.m = <<>> \/ a.e >= 0 THEN FTrunc(a)
    ELSE IF BShl(BShr(a.m, -a.e), -a.e) = a.m THEN FTrunc(a)
    ELSE FTrunc(a) - 1

\* round(x, 3): the decimal with three places nearest to the exact value of x, ties to
\* even, as the float nearest to that decimal
FRound3(a) ==
    IF a.m = <<>> THEN FZero
    ELSE FDiv(FFromInt(a.s * BToInt(IF a.e >= 0 THEN BShl(BMulSmall(a.m, 1000), a.e)
                                    ELSE BRoundShr(BMulSmall(a.m, 1000), -a.e))),
              FFromInt(1000))

\* ---------- configuration: src/core/config.py ----------
DAILY_EARNING_LIMIT_USD == 30
EARNING_PARTITIONS_COUNT == 6
EARNING_PER_PARTITION_USD == 5
SECONDS_PER_PARTITION == 14400
MAX_CLICKS_PER_PARTITION == 250

\* the settings object with every field at its default
DefaultSettings ==
    [DAILY_EARNING_LIMIT_USD   |-> DAILY_EARNING_LIMIT_USD,
     EARNING_PARTITIONS_COUNT  |-> EARNING_PARTITIONS_COUNT,
     EARNING_PER_PARTITION_USD |-> EARNING_PER_PARTITION_USD,
     SECONDS_PER_PARTITION     |-> SECONDS_PER_PARTITION,
     MAX_CLICKS_PER_PARTITION  |-> MAX_CLICKS_PER_PARTITION]

\* ---------- bounds of the exploration ----------
NumClients     == 2       \* concurrent requests
MaxCalls       == 2       \* calls each concurrent request stream makes
MaxDate        == 1   \* calendar dates 1..MaxDate
MaxExtras      == 1   \* calls other than the usual click explored in one run
MaxHistory     == 51  \* accepted clicks explored in one run
SmallMaxClicks == 2   \* MAX_CLICKS_PER_PARTITION of the click-bound environment
MaxStatusClicks == 2   \* clicks made in a run that reads the status
MaxEnergySteps == 4   \* calls and clock steps in a run of the energy cache

\* environments the process is started in (every field is read from the environment):
\* the defaults with a small click cap, and two where the USD caps bind
SettingsInputs ==
    { [DAILY_EARNING_LIMIT_USD |-> DAILY_EARNING_LIMIT_USD, EARNING_PARTITIONS_COUNT |-> 2,
       EARNING_PER_PARTITION_USD |-> EARNING_PER_PARTITION_USD,
       SECONDS_PER_PARTITION |-> 43200, MAX_CLICKS_PER_PARTITION |-> SmallMaxClicks],
      [DAILY_EARNING_LIMIT_USD |-> 2, EARNING_PARTITIONS_COUNT |-> 2,
       EARNING_PER_PARTITION_USD |-> 1, SECONDS_PER_PARTITION |-> 43200,
       MAX_CLICKS_PER_PARTITION |-> MAX_CLICKS_PER_PARTITION],
      [DAILY_EARNING_LIMIT_USD |-> 1, EARNING_PARTITIONS_COUNT |-> 2,
       EARNING_PER_PARTITION_USD |-> 1, SECONDS_PER_PARTITION |-> 43200,
       MAX_CLICKS_PER_PARTITION |-> MAX_CLICKS_PER_PARTITION] }

UserIds      == {1, 2}            \* user ids a request may carry
Half         == FDiv(FFromInt(1), FFromInt(2))
\* the usual click: full energy at a price of $0.5
UsualEnergy  == 200
UsualPrice   == Half
\* the other calls: no energy, half energy, energy beyond the multiplier's cap,
\* a price of zero, a negative price
VariedInputs == { <<0, Half>>, <<100, Half>>, <<300, Half>>,
                  <<UsualEnergy, FZero>>, <<UsualEnergy, FNeg(Half)>> }

VARIABLES
    settings,   \* src.core.config.settings
    now,        \* datetime.utcnow(): [date, sec] with sec the seconds since midnight
    db,         \* committed rows: daily_earnings, earning_partitions, earning_history
    users,      \* committed users table: id -> balance
    session,    \* the rows as the service's AsyncSession sees them (db + pending changes)
    extras,     \* number of calls other than the usual click so far
    last,       \* the last call and what it returned or raised
    clients,    \* concurrent requests, each with an AsyncSession of its own: how far
                \* its call of process_click_earning has come and the rows it has loaded
    redis       \* the cache: the entry energy:calc and the entries user:energy:<id>,
                \* each <<>> when absent or <<[value, expires]>>

vars == <<settings, now, db, users, session, extras, last, clients, redis>>

None == [date |-> 0, sec |-> 0]
SecondsPerDay == 86400

EmptyStore == [daily_earnings |-> <<>>, earning_partitions |-> <<>>, earning_history |-> <<>>]

\* ---------- rows: src/models/daily_earning.py ----------
DailyEarning(id, user_id, earning_date, t, cfg) ==
    [id |-> id, user_id |-> user_id, earning_date |-> earning_date,
     total_earned_usd |-> FZero, total_earned_luna |-> 0,
     partitions_used |-> 0, max_partitions |-> cfg.EARNING_PARTITIONS_COUNT,
     is_daily_limit_reached |-> FALSE, last_partition_reset |-> None,
     updated_at |-> t]

EarningPartition(id, user_id, daily_earning_id, partition_number, partition_date, t, cfg) ==
    [id |-> id, user_id |-> user_id, daily_earning_id |-> daily_earning_id,
     partition_number |-> partition_number, partition_date |-> partition_date,
     earned_usd |-> FZero, earned_luna |-> 0, clicks_count |-> 0,
     max_clicks |-> cfg.MAX_CLICKS_PER_PARTITION, is_partition_full |-> FALSE,
     partition_start_time |-> None, partition_end_time |-> None,
     updated_at |-> t]

EarningHistory(id, user_id, daily_earning_id, partition_id, t, earned_usd, earned_luna, luna_price, energy_consumed) ==
    [id |-> id, user_id |-> user_id, daily_earning_id |-> daily_earning_id,
     partition_id |-> partition_id, click_timestamp |-> t,
     earned_usd |-> earned_usd, earned_luna |-> earned_luna,
     luna_price_at_click |-> luna_price, energy_consumed |-> energy_consumed]

\* ---------- queries of DailyEarningService ----------
\* select(DailyEarning).where(user_id, earning_date)
SelectDailyEarning(S, user_id, earning_date) ==
    {i \in 1..Len(S.daily_earnings) :
        /\ S.daily_earnings[i].user_id = user_id
        /\ S.daily_earnings[i].earning_date = earning_date}

\* select(EarningPartition).where(user_id, partition_number, partition_date)
SelectPartitionOfDate(S, user_id, partition_number, partition_date) ==
    {i \in 1..Len(S.earning_partitions) :
        /\ S.earning_partitions[i].user_id = user_id
        /\ S.earning_partitions[i].partition_number = partition_number
        /\ S.earning_partitions[i].partition_date = partition_date}

\* select(EarningPartition).where(user_id, daily_earning_id, partition_number, partition_date)
SelectPartition(S, user_id, daily_earning_id, partition_number, partition_date) ==
    {i \in SelectPartitionOfDate(S, user_id, partition_number, partition_date) :
        S.earning_partitions[i].daily_earning_id = daily_earning_id}

\* scalar_one_or_none() of a result with at most one row
TheOne(ids) == CHOOSE i \in ids : TRUE

\* calculate_current_partition without the + 1 of line 92
calculate_current_partition_from_zero(current_time, cfg) ==
    Min(current_time.sec \div cfg.SECONDS_PER_PARTITION, cfg.EARNING_PARTITIONS_COUNT)

calculate_current_partition(current_time, cfg) ==
    Min((current_time.sec \div cfg.SECONDS_PER_PARTITION) + 1, cfg.EARNING_PARTITIONS_COUNT)

\* CanEarn with the check of is_partition_full (lines 135-136) left out
CanEarnFlagUnchecked(partition, cfg) ==
    IF partition.clicks_count >= partition.max_clicks
    THEN [can |-> FALSE,
          message |-> <<"Partition", partition.partition_number, "reached max clicks">>]
    ELSE IF FGe(partition.earned_usd, FFromInt(cfg.EARNING_PER_PARTITION_USD))
    THEN [can |-> FALSE,
          message |-> <<"Partition", partition.partition_number, "reached earning limit">>]
    ELSE [can |-> TRUE, message |-> <<"Can earn in partition">>]

\* can_user_earn_in_partition once the partition row is loaded
CanEarn(partition, cfg) ==
    IF partition.is_partition_full
    THEN [can |-> FALSE, message |-> <<"Partition", partition.partition_number, "is full">>]
    ELSE IF partition.clicks_count >= partition.max_clicks
    THEN [can |-> FALSE,
          message |-> <<"Partition", partition.partition_number, "reached max clicks">>]
    ELSE IF FGe(partition.earned_usd, FFromInt(cfg.EARNING_PER_PARTITION_USD))
    THEN [can |-> FALSE,
          message |-> <<"Partition", partition.partition_number, "reached earning limit">>]
    ELSE [can |-> TRUE, message |-> <<"Can earn in partition">>]

\* ---------- the arithmetic of one click ----------
base_earning_per_click == FDiv(FFromInt(1), FFromInt(100))

\* energy_multiplier with the cap at 1.0 in place of 2.0
energy_multiplier_capped_at_one(energy_consumed) ==
    FMin(FDiv(FFromInt(energy_consumed), FFromInt(100)), FFromInt(1))

\* energy_multiplier without its cap of 2.0
energy_multiplier_uncapped(energy_consumed) ==
    FDiv(FFromInt(energy_consumed), FFromInt(100))

\* min(energy_consumed / 100, 2.0)
energy_multiplier(energy_consumed) ==
    FMin(FDiv(FFromInt(energy_consumed), FFromInt(100)), FFromInt(2))

\* Clamp with the comparison against the remaining budget left out
ClampMissing(earned_usd, total_usd, cap) ==
    earned_usd

\* Clamp that gives up the whole earning where the code keeps the remaining budget
ClampRefusing(earned_usd, total_usd, cap) ==
    IF FGt(FAdd(total_usd, earned_usd), FFromInt(cap)) THEN FZero ELSE earned_usd

\* min-with-the-remaining-budget as the code writes it: if total + earned > cap
\* then max(0, cap - total) else earned
Clamp(earned_usd, total_usd, cap) ==
    IF FGt(FAdd(total_usd, earned_usd), FFromInt(cap))
    THEN FMax(FZero, FSub(FFromInt(cap), total_usd))
    ELSE earned_usd

\* earned_usd after the partition clamp and the daily clamp
EarnedUsd(energy_consumed, partition_usd, daily_usd, cfg) ==
    Let(energy_multiplier(energy_consumed),
        LAMBDA multiplier :
            Let(FMul(base_earning_per_click, multiplier),
                LAMBDA earned_usd :
                    Let(Clamp(earned_usd, partition_usd, cfg.EARNING_PER_PARTITION_USD),
                        LAMBDA clamped :
                            Clamp(clamped, daily_usd, cfg.DAILY_EARNING_LIMIT_USD))))

\* int((earned_usd / luna_price) * 1000000), luna_price nonzero
EarnedLuna(earned_usd, luna_price) ==
    Let(FDiv(earned_usd, luna_price),
        LAMBDA luna : Let(FMul(luna, FFromInt(1000000)), LAMBDA micro : FTrunc(micro)))

\* PartitionFull with the click count left out of the condition
PartitionFullByUsdOnly(partition, clicks_count, earned_usd, cfg) ==
    FGe(earned_usd, FFromInt(cfg.EARNING_PER_PARTITION_USD))

\* is_partition_full after a click that leaves the row with these counters
PartitionFull(partition, clicks_count, earned_usd, cfg) ==
    \/ clicks_count >= partition.max_clicks
    \/ FGe(earned_usd, FFromInt(cfg.EARNING_PER_PARTITION_USD))

PartitionWith(partition, earned_usd, earned_luna, clicks_count, full, current_time) ==
    [partition EXCEPT
        !.earned_usd = earned_usd,
        !.earned_luna = earned_luna,
        !.clicks_count = clicks_count,
        !.is_partition_full = IF full THEN TRUE ELSE @,
        !.partition_end_time = IF full THEN current_time ELSE @]

\* the partition row after an accepted click
PartitionAfterClick(partition, earned_usd, earned_luna, current_time, cfg) ==
    Let(FAdd(partition.earned_usd, earned_usd),
        LAMBDA usd :
            PartitionWith(partition, usd, partition.earned_luna + earned_luna,
                          partition.clicks_count + 1,
                          PartitionFull(partition, partition.clicks_count + 1, usd, cfg),
                          current_time))

\* DailyLimitReached with > in place of >=
DailyLimitReachedStrict(total_earned_usd, cfg) ==
    FGt(total_earned_usd, FFromInt(cfg.DAILY_EARNING_LIMIT_USD))

\* is_daily_limit_reached after a click that leaves the row with this total
DailyLimitReached(total_earned_usd, cfg) ==
    FGe(total_earned_usd, FFromInt(cfg.DAILY_EARNING_LIMIT_USD))

\* the daily row after an accepted click
DailyAfterClick(daily, earned_usd, earned_luna, current_time, cfg) ==
    Let(FAdd(daily.total_earned_usd, earned_usd),
        LAMBDA usd :
            [daily EXCEPT
                !.total_earned_usd = usd,
                !.total_earned_luna = @ + earned_luna,
                !.updated_at = current_time,
                !.is_daily_limit_reached =
                    IF DailyLimitReached(usd, cfg) THEN TRUE ELSE @])

\* ---------- DailyEarningService on one AsyncSession, one call at a time ----------
\* a call's outcome: the session's rows, the committed rows, the users table, the result
Returned(S, D, U, ok, earned_usd, earned_luna, message) ==
    [session |-> S, db |-> D, users |-> U,
     result |-> [raised |-> "", ok |-> ok, earned_usd |-> earned_usd,
                 earned_luna |-> earned_luna, message |-> message]]

Raised(S, D, U, exception) ==
    [session |-> S, db |-> D, users |-> U,
     result |-> [raised |-> exception, ok |-> FALSE, earned_usd |-> FZero,
                 earned_luna |-> 0, message |-> <<>>]]

\* lines 201-244: the loaded rows are changed, a history row is added, the user's
\* balance is raised, and all of it is committed
process_click_commit(S, D, U, cfg, current_time, user_id, energy_consumed, luna_price, did, pid, earned_usd, earned_luna) ==
    Let([S EXCEPT
            !.earning_partitions[pid] =
                PartitionAfterClick(@, earned_usd, earned_luna, current_time, cfg),
            !.daily_earnings[did] =
                DailyAfterClick(@, earned_usd, earned_luna, current_time, cfg),
            !.earning_history =
                Append(@, EarningHistory(Len(@) + 1, user_id, did, pid, current_time,
                                         earned_usd, earned_luna, luna_price,
                                         energy_consumed))],
        LAMBDA S1 :
            IF user_id \notin DOMAIN U THEN Raised(S1, D, U, "NoResultFound")
            ELSE Returned(S1, S1, [U EXCEPT ![user_id] = @ + earned_luna],
                          TRUE, earned_usd, earned_luna,
                          <<"Earning processed successfully">>))

\* lines 195-199: the rejection of an empty earning, then the conversion to LUNA
process_click_convert(S, D, U, cfg, current_time, user_id, energy_consumed, luna_price, did, pid, earned_usd) ==
    IF FLe(earned_usd, FZero)
    THEN Returned(S, D, U, FALSE, FZero, 0, <<"No earnings possible due to limits">>)
    ELSE IF luna_price.m = <<>> THEN Raised(S, D, U, "ZeroDivisionError")
    ELSE Let(EarnedLuna(earned_usd, luna_price),
             LAMBDA earned_luna :
                 process_click_commit(S, D, U, cfg, current_time, user_id,
                                      energy_consumed, luna_price, did, pid, earned_usd,
                                      earned_luna))

\* lines 181-193 on the partition row pid, which get_or_create_partition returned
process_click_earn(S, D, U, cfg, current_time, user_id, energy_consumed, luna_price, did, pid) ==
    Let(EarnedUsd(energy_consumed, S.earning_partitions[pid].earned_usd,
                  S.daily_earnings[did].total_earned_usd, cfg),
        LAMBDA earned_usd :
            process_click_convert(S, D, U, cfg, current_time, user_id, energy_consumed,
                                  luna_price, did, pid, earned_usd))

\* get_or_create_partition (lines 52-86) for the rows ids that its select returned
get_or_create_partition(S, D, U, cfg, current_time, user_id, energy_consumed, luna_price, did, partition_number, ids) ==
    IF Cardinality(ids) > 1 THEN Raised(S, D, U, "MultipleResultsFound")
    ELSE IF ids # {}
    THEN process_click_earn(S, D, U, cfg, current_time, user_id, energy_consumed,
                            luna_price, did, TheOne(ids))
    ELSE Let([S EXCEPT !.earning_partitions =
                 Append(@, EarningPartition(Len(@) + 1, user_id, did, partition_number,
                                            current_time.date, current_time, cfg))],
             LAMBDA S1 :
                 process_click_earn(S1, S1, U, cfg, current_time, user_id,
                                    energy_consumed, luna_price, did,
                                    Len(S1.earning_partitions)))

\* can_user_earn_in_partition (lines 113-146) for the rows ids that its select returned
can_user_earn_in_partition(S, cfg, ids) ==
    IF ids = {} THEN [can |-> TRUE, message |-> <<"Partition not found, will be created">>]
    ELSE CanEarn(S.earning_partitions[TheOne(ids)], cfg)

\* process_click_daily with the check of is_daily_limit_reached (lines 161-163) left out
process_click_daily_unchecked(S, D, U, cfg, current_time, user_id, energy_consumed, luna_price, did, partition_number, ids) ==
    IF Cardinality(ids) > 1 THEN Raised(S, D, U, "MultipleResultsFound")
    ELSE IF ~can_user_earn_in_partition(S, cfg, ids).can
    THEN Returned(S, D, U, FALSE, FZero, 0, can_user_earn_in_partition(S, cfg, ids).message)
    ELSE get_or_create_partition(S, D, U, cfg, current_time, user_id, energy_consumed,
                                 luna_price, did, partition_number,
                                 SelectPartition(S, user_id, did, partition_number,
                                                 current_time.date))

\* lines 161-179 with the daily row did loaded
process_click_daily(S, D, U, cfg, current_time, user_id, energy_consumed, luna_price, did, partition_number, ids) ==
    IF S.daily_earnings[did].is_daily_limit_reached
    THEN Returned(S, D, U, FALSE, FZero, 0, <<"Daily earning limit reached">>)
    ELSE IF Cardinality(ids) > 1 THEN Raised(S, D, U, "MultipleResultsFound")
    ELSE IF ~can_user_earn_in_partition(S, cfg, ids).can
    THEN Returned(S, D, U, FALSE, FZero, 0, can_user_earn_in_partition(S, cfg, ids).message)
    ELSE get_or_create_partition(S, D, U, cfg, current_time, user_id, energy_consumed,
                                 luna_price, did, partition_number,
                                 SelectPartition(S, user_id, did, partition_number,
                                                 current_time.date))

\* get_or_create_daily_earning (lines 26-50) for the rows ids that its select returned
get_or_create_daily_earning(S, D, U, cfg, current_time, user_id, energy_consumed, luna_price, ids) ==
    IF Cardinality(ids) > 1 THEN Raised(S, D, U, "MultipleResultsFound")
    ELSE IF ids # {}
    THEN process_click_daily(S, D, U, cfg, current_time, user_id, energy_consumed,
                             luna_price, TheOne(ids),
                             calculate_current_partition(current_time, cfg),
                             SelectPartitionOfDate(S, user_id,
                                 calculate_current_partition(current_time, cfg),
                                 current_time.date))
    ELSE Let([S EXCEPT !.daily_earnings =
                 Append(@, DailyEarning(Len(@) + 1, user_id, current_time.date,
                                        current_time, cfg))],
             LAMBDA S1 :
                 process_click_daily(S1, S1, U, cfg, current_time, user_id,
                                     energy_consumed, luna_price, Len(S1.daily_earnings),
                                     calculate_current_partition(current_time, cfg),
                                     SelectPartitionOfDate(S1, user_id,
                                         calculate_current_partition(current_time, cfg),
                                         current_time.date)))

\* process_click_earning (lines 148-244) on the session rows S, committed rows D, users U
process_click_earning(S, D, U, cfg, current_time, user_id, energy_consumed, luna_price) ==
    get_or_create_daily_earning(S, D, U, cfg, current_time, user_id, energy_consumed,
                                luna_price,
                                SelectDailyEarning(S, user_id, current_time.date))

\* the row a reset leaves
ResetRow(partition, current_time) ==
    [partition EXCEPT !.earned_usd = FZero, !.earned_luna = 0, !.clicks_count = 0,
                      !.is_partition_full = FALSE,
                      !.partition_start_time = current_time,
                      !.partition_end_time = None,
                      !.updated_at = current_time]

reset_partition_found(S, D, U, current_time, partition_number, ids) ==
    IF Cardinality(ids) > 1 THEN Raised(S, D, U, "MultipleResultsFound")
    ELSE IF ids = {}
    THEN Returned(S, D, U, FALSE, FZero, 0, <<"Partition", partition_number, "not found">>)
    ELSE Let([S EXCEPT !.earning_partitions[TheOne(ids)] = ResetRow(@, current_time)],
             LAMBDA S1 : Returned(S1, S1, U, TRUE, FZero, 0,
                                  <<"Partition", partition_number, "reset successfully">>))

\* reset_partition (lines 325-355)
reset_partition(S, D, U, current_time, user_id, partition_number) ==
    reset_partition_found(S, D, U, current_time, partition_number,
        SelectPartitionOfDate(S, user_id, partition_number, current_time.date))

\* ---------- get_daily_earning_status ----------
\* calculate_partition_end_time (lines 105-111): time.replace(hour=end_hour) raises
\* ValueError when end_hour is not in 0..23; the seconds of the boundary are dropped
calculate_partition_end_time(partition_number, date_obj, cfg) ==
    IF (partition_number * cfg.SECONDS_PER_PARTITION) \div 3600 > 23
    THEN [raised |-> "ValueError"]
    ELSE [raised |-> "",
          time |-> [date |-> date_obj,
                    sec |-> ((partition_number * cfg.SECONDS_PER_PARTITION) \div 3600) * 3600
                            + (((partition_number * cfg.SECONDS_PER_PARTITION) % 3600)
                                   \div 60) * 60]]

\* datetime a < datetime b
Before(a, b) == a.date < b.date \/ (a.date = b.date /\ a.sec < b.sec)

\* select(EarningPartition).where(user_id, daily_earning_id, partition_number)
SelectPartitionOfDaily(S, user_id, daily_earning_id, partition_number) ==
    {i \in 1..Len(S.earning_partitions) :
        /\ S.earning_partitions[i].user_id = user_id
        /\ S.earning_partitions[i].daily_earning_id = daily_earning_id
        /\ S.earning_partitions[i].partition_number = partition_number}

\* select(EarningHistory).where(user_id).order_by(click_timestamp.desc()).limit(1)
LastClick(S, user_id) ==
    {i \in 1..Len(S.earning_history) :
        /\ S.earning_history[i].user_id = user_id
        /\ \A j \in 1..Len(S.earning_history) :
              S.earning_history[j].user_id = user_id
                  => /\ ~Before(S.earning_history[i].click_timestamp,
                                S.earning_history[j].click_timestamp)
                     /\ (S.earning_history[j].click_timestamp
                             = S.earning_history[i].click_timestamp => i <= j)}

\* lines 262-279: the status of a user without a daily record
EmptyStatus(cfg, current_time, user_id, target_date) ==
    [raised |-> "", user_id |-> user_id, earning_date |-> target_date,
     total_earned_usd |-> FZero, total_earned_luna |-> 0,
     daily_limit_usd |-> cfg.DAILY_EARNING_LIMIT_USD,
     remaining_usd |-> FFromInt(cfg.DAILY_EARNING_LIMIT_USD),
     partitions_used |-> 0, max_partitions |-> cfg.EARNING_PARTITIONS_COUNT,
     is_daily_limit_reached |-> FALSE,
     current_partition |-> calculate_current_partition(current_time, cfg),
     current_partition_earned_usd |-> FZero, current_partition_clicks |-> 0,
     current_partition_max_clicks |-> cfg.MAX_CLICKS_PER_PARTITION,
     next_partition_reset_time |-> None, last_click_time |-> None]

\* lines 304-323 with the daily row, the partition rows pids and the last click found
StatusOf(S, cfg, current_time, user_id, target_date, daily_earning, n, pids, clicks, partition_end_time) ==
    IF partition_end_time.raised # "" THEN [raised |-> partition_end_time.raised]
    ELSE [raised |-> "", user_id |-> user_id, earning_date |-> target_date,
          total_earned_usd |-> daily_earning.total_earned_usd,
          total_earned_luna |-> daily_earning.total_earned_luna,
          daily_limit_usd |-> cfg.DAILY_EARNING_LIMIT_USD,
          remaining_usd |-> FMax(FZero, FSub(FFromInt(cfg.DAILY_EARNING_LIMIT_USD),
                                             daily_earning.total_earned_usd)),
          partitions_used |-> daily_earning.partitions_used,
          max_partitions |-> daily_earning.max_partitions,
          is_daily_limit_reached |-> daily_earning.is_daily_limit_reached,
          current_partition |-> n,
          current_partition_earned_usd |->
              IF pids = {} THEN FZero ELSE S.earning_partitions[TheOne(pids)].earned_usd,
          current_partition_clicks |->
              IF pids = {} THEN 0 ELSE S.earning_partitions[TheOne(pids)].clicks_count,
          current_partition_max_clicks |-> cfg.MAX_CLICKS_PER_PARTITION,
          next_partition_reset_time |->
              IF Before(current_time, partition_end_time.time)
              THEN partition_end_time.time ELSE None,
          last_click_time |->
              IF clicks = {} THEN None
              ELSE S.earning_history[TheOne(clicks)].click_timestamp]

\* lines 281-302: the partition addressed now, its row and the last click
status_with_daily(S, cfg, current_time, user_id, target_date, daily_earning, n) ==
    IF Cardinality(SelectPartitionOfDaily(S, user_id, daily_earning.id, n)) > 1
    THEN [raised |-> "MultipleResultsFound"]
    ELSE StatusOf(S, cfg, current_time, user_id, target_date, daily_earning, n,
                  SelectPartitionOfDaily(S, user_id, daily_earning.id, n),
                  LastClick(S, user_id),
                  calculate_partition_end_time(n, target_date, cfg))

\* get_daily_earning_status (lines 246-323) for target_date on the session rows S
get_daily_earning_status(S, cfg, current_time, user_id, target_date) ==
    IF Cardinality(SelectDailyEarning(S, user_id, target_date)) > 1
    THEN [raised |-> "MultipleResultsFound"]
    ELSE IF SelectDailyEarning(S, user_id, target_date) = {}
    THEN EmptyStatus(cfg, current_time, user_id, target_date)
    ELSE status_with_daily(S, cfg, current_time, user_id, target_date,
             S.daily_earnings[TheOne(SelectDailyEarning(S, user_id, target_date))],
             calculate_current_partition(current_time, cfg))

\* ---------- energy: src/utils/energy_calc.py, src/api/v1/sync_energy.py ----------
DAILY_LIMIT_USD      == 30
SECONDS_MAX_RECHARGE == 10800
RechargeCap          == 10800    \* the literal of SGetSyncBalance.calculate_seconds_recharge
EnergyCalcTtl        == 10800    \* ex of energy:calc, 3 hours
UserEnergyTtl        == 432000   \* ex of user:energy:<id>, 5 days

TelegramIds == {1}
EmptyRedis  == [calc |-> <<>>, energy |-> [u \in TelegramIds |-> <<>>]]

\* int(datetime.timestamp())
Timestamp(t) == t.date * SecondsPerDay + t.sec

\* redis.get at the time t: an entry is gone once its time to live has passed
RedisGet(entry, t) ==
    IF entry # <<>> /\ Timestamp(t) < entry[1].expires THEN entry ELSE <<>>

\* redis.set(key, value, ex=ttl) at the time t
RedisEntry(value, t, ttl) == <<[value |-> value, expires |-> Timestamp(t) + ttl]>>

\* lines 30-36 of energy_calc.py: the dict that is cached and returned
EnergyData(current_price, daily_limit, charge_per_second, max_energy_per_part, cfg) ==
    [current_price |-> current_price,
     daily_limit |-> daily_limit,
     charge_per_second |->
         FDiv(FFromInt(FFloor(FMul(FRound3(charge_per_second), FFromInt(20)))),
              FFromInt(20)),
     max_energy_per_part |-> max_energy_per_part,
     discharge_per_click |->
         FDiv(max_energy_per_part, FFromInt(cfg.MAX_CLICKS_PER_PARTITION))]

\* lines 17-25: daily_limit, charge_per_second and max_energy_per_part of a price
EnergyOfPrice(current_price, cfg) ==
    Let(FFloor(FMul(FFromInt(DAILY_LIMIT_USD), current_price)) * 10000,
        LAMBDA daily_limit :
            Let(FDiv(FFromInt(daily_limit), FFromInt(24 * 60 * 60)),
                LAMBDA charge_per_second :
                    EnergyData(current_price, daily_limit, charge_per_second,
                               FMul(charge_per_second,
                                    FFromInt(cfg.SECONDS_MAX_RECHARGE)),
                               cfg)))

\* calculate_energy (lines 10-48) when get_luna_price_binance returns price: <<>> is
\* None, <<p>> the float p
calculate_energy(R, cfg, t, price) ==
    IF price = <<>> THEN [redis |-> R, raised |-> "ValueError", data |-> <<>>]
    ELSE Let(EnergyOfPrice(price[1], cfg),
             LAMBDA data : [redis |-> [R EXCEPT !.calc = RedisEntry(data, t, EnergyCalcTtl)],
                            raised |-> "", data |-> <<data>>])

\* get_cached_energy (sync_energy.py lines 23-26)
get_cached_energy(R, cfg, t, price) ==
    IF RedisGet(R.calc, t) # <<>>
    THEN [redis |-> R, raised |-> "", data |-> <<R.calc[1].value>>]
    ELSE calculate_energy(R, cfg, t, price)

\* SGetSyncBalance.calculate_seconds_recharge (schemas/user.py lines 26-32) at time t
calculate_seconds_recharge(t, sync_at) ==
    IF Timestamp(t) - Timestamp(sync_at) < RechargeCap
    THEN Timestamp(t) - Timestamp(sync_at) ELSE RechargeCap

\* SGetSyncBalance(**data) at the time t: the field balance is an int, and a float
\* with a fractional part is no valid int
SGetSyncBalance(data, t) ==
    IF FFromInt(FTrunc(data.balance)) # data.balance
    THEN [raised |-> "ValidationError"]
    ELSE [raised |-> "", balance |-> FTrunc(data.balance), value |-> data.value,
          sync_at |-> data.sync_at,
          seconds_recharge |-> calculate_seconds_recharge(t, data.sync_at),
          charge_per_second |-> FZero]

\* sync_energy (sync_energy.py lines 36-55): the snapshot is stored, then the response
\* is built
sync_energy(R, t, telegram_id, balance, value) ==
    Let([balance |-> balance, value |-> value, sync_at |-> t],
        LAMBDA data :
            [redis |-> [R EXCEPT !.energy[telegram_id] = RedisEntry(data, t, UserEnergyTtl)],
             energy |-> <<>>,
             result |-> SGetSyncBalance(data, t)])

\* the projection without the cap of line 82
Uncapped(a, b) == a

\* min(a, b) of Python: b when b < a, else a
PyMin(a, b) == IF FLt(b, a) THEN b ELSE a

\* get_sync_energy lines 79-87: the snapshot res projected with the parameters energy
projected_energy(res, energy) ==
    IF res.raised # "" THEN res
    ELSE [res EXCEPT
             !.value = PyMin(FAdd(res.value,
                                  FMul(energy.charge_per_second,
                                       FFromInt(res.seconds_recharge))),
                             energy.max_energy_per_part),
             !.charge_per_second = energy.charge_per_second]

\* get_sync_energy lines 89-98: no snapshot is cached
default_energy(t, energy) ==
    [raised |-> "", balance |-> 0, value |-> energy.max_energy_per_part, sync_at |-> t,
     seconds_recharge |-> 0, charge_per_second |-> energy.charge_per_second]

\* get_sync_energy (sync_energy.py lines 64-98) with the outcome e of get_cached_energy
get_sync_energy_with(R, t, telegram_id, e) ==
    IF e.raised # "" THEN [redis |-> e.redis, energy |-> <<>>, result |-> [raised |-> e.raised]]
    ELSE [redis |-> e.redis, energy |-> e.data,
          result |-> IF RedisGet(R.energy[telegram_id], t) # <<>>
                     THEN projected_energy(SGetSyncBalance(R.energy[telegram_id][1].value, t),
                                           e.data[1])
                     ELSE default_energy(t, e.data[1])]

get_sync_energy(R, cfg, t, telegram_id, price) ==
    Let(get_cached_energy(R, cfg, t, price),
        LAMBDA e : get_sync_energy_with(R, t, telegram_id, e))

\* ---------- actions ----------
\* a request that is not inside a call; calls counts the calls it has made
IdleClient == [pc |-> "idle", calls |-> 0, daily |-> <<>>, partition |-> <<>>,
               result |-> "none"]

Init ==
    /\ settings \in SettingsInputs
    /\ now = [date |-> 1, sec |-> 0]
    /\ db = EmptyStore
    /\ session = EmptyStore
    /\ users = [u \in {1} |-> 0]
    /\ extras = 0
    /\ last = [op |-> "none"]
    /\ clients = [c \in 1..NumClients |-> IdleClient]
    /\ redis = EmptyRedis

\* the outcome r of a call becomes the state
Outcome(r) ==
    /\ session' = r.session
    /\ db' = r.db
    /\ users' = r.users

ProcessClick(user_id, energy_consumed, luna_price) ==
    /\ \E r \in {process_click_earning(session, db, users, settings, now, user_id,
                                      energy_consumed, luna_price)} :
               /\ Outcome(r)
               /\ last' = [op |-> "process_click", user_id |-> user_id,
                           energy_consumed |-> energy_consumed,
                           luna_price |-> luna_price, result |-> r.result]
    /\ UNCHANGED <<settings, now, clients, redis>>

ResetPartition(user_id, partition_number) ==
    /\ \E r \in {reset_partition(session, db, users, now, user_id, partition_number)} :
               /\ Outcome(r)
               /\ last' = [op |-> "reset_partition", user_id |-> user_id,
                           partition_number |-> partition_number, result |-> r.result]
    /\ UNCHANGED <<settings, now, clients, redis>>

\* the clock reaches the start of the next partition window
NextWindow(t, cfg) ==
    IF ((t.sec \div cfg.SECONDS_PER_PARTITION) + 1) * cfg.SECONDS_PER_PARTITION
           >= SecondsPerDay
    THEN [date |-> t.date + 1, sec |-> 0]
    ELSE [date |-> t.date,
          sec |-> ((t.sec \div cfg.SECONDS_PER_PARTITION) + 1) * cfg.SECONDS_PER_PARTITION]

Tick ==
    /\ NextWindow(now, settings).date <= MaxDate
    /\ now' = NextWindow(now, settings)
    /\ UNCHANGED <<settings, db, users, session, extras, last, clients, redis>>

\* the traffic explored: a user who clicks at full energy and a fixed price until a
\* click is turned down; between such runs the clock may advance and, MaxExtras times,
\* a partition may be reset or a click may carry other inputs
Quiet == IF last.op = "process_click" THEN ~last.result.ok ELSE TRUE

ClickUsual ==
    /\ Len(session.earning_history) < MaxHistory
    /\ ProcessClick(1, UsualEnergy, UsualPrice)
    /\ UNCHANGED extras

ClickVaried ==
    /\ Quiet
    /\ extras < MaxExtras
    /\ extras' = extras + 1
    /\ \E i \in VariedInputs : ProcessClick(1, i[1], i[2])

Reset ==
    /\ Quiet
    /\ extras < MaxExtras
    /\ extras' = extras + 1
    /\ \E n \in 1..settings.EARNING_PARTITIONS_COUNT : ResetPartition(1, n)

Next == ClickUsual \/ ClickVaried \/ Reset \/ (Quiet /\ Tick)

Spec == Init /\ [][Next]_vars

\* ---------- concurrent requests ----------
\* Each request runs process_click_earning (lines 148-244) on an AsyncSession of its own
\* and gives way to the others at its awaits. A select reads the committed rows; a row
\* the session has loaded keeps the values it was loaded with (the identity map), and
\* the += of lines 202-215 are computed from those values and written as they are.
ConcurrentUser == 1

\* the call of request c ends with this outcome
Finish(c, outcome) ==
    clients' = [clients EXCEPT ![c].pc = "idle", ![c].result = outcome]

Begin(c) ==
    /\ clients[c].pc = "idle"
    /\ clients[c].calls < MaxCalls
    /\ clients' = [clients EXCEPT ![c] = [pc |-> "select_daily", calls |-> @.calls + 1,
                                          daily |-> <<>>, partition |-> <<>>,
                                          result |-> "none"]]
    /\ UNCHANGED <<settings, now, db, users, session, extras, last, redis>>

\* lines 30-36: the select of get_or_create_daily_earning
SelectDaily(c) ==
    /\ clients[c].pc = "select_daily"
    /\ \E ids \in {SelectDailyEarning(db, ConcurrentUser, now.date)} :
               IF Cardinality(ids) > 1 THEN Finish(c, "MultipleResultsFound")
               ELSE IF ids = {} THEN clients' = [clients EXCEPT ![c].pc = "create_daily"]
               ELSE clients' = [clients EXCEPT
                                   ![c].pc = "can_earn",
                                   ![c].daily = <<db.daily_earnings[TheOne(ids)]>>]
    /\ UNCHANGED <<settings, now, db, users, session, extras, last, redis>>

\* lines 38-48: no row was found, one is added and committed
CreateDaily(c) ==
    /\ clients[c].pc = "create_daily"
    /\ \E row \in {DailyEarning(Len(db.daily_earnings) + 1, ConcurrentUser, now.date, now,
                                settings)} :
               /\ db' = [db EXCEPT !.daily_earnings = Append(@, row)]
               /\ clients' = [clients EXCEPT ![c].pc = "can_earn", ![c].daily = <<row>>]
    /\ UNCHANGED <<settings, now, users, session, extras, last, redis>>

\* the select of can_user_earn_in_partition (lines 119-129) found the rows ids
CanEarnLoaded(c, ids) ==
    IF Cardinality(ids) > 1 THEN Finish(c, "MultipleResultsFound")
    ELSE IF ids = {} THEN clients' = [clients EXCEPT ![c].pc = "select_partition"]
    ELSE IF ~CanEarn(db.earning_partitions[TheOne(ids)], settings).can
    THEN Finish(c, "rejected")
    ELSE clients' = [clients EXCEPT
                        ![c].pc = "select_partition",
                        ![c].partition = <<db.earning_partitions[TheOne(ids)]>>]

\* lines 161-174: the daily limit flag of the loaded row, then can_user_earn_in_partition
CanEarnStep(c) ==
    /\ clients[c].pc = "can_earn"
    /\ IF clients[c].daily[1].is_daily_limit_reached
       THEN Finish(c, "rejected")
       ELSE CanEarnLoaded(c, SelectPartitionOfDate(db, ConcurrentUser,
                                 calculate_current_partition(now, settings), now.date))
    /\ UNCHANGED <<settings, now, db, users, session, extras, last, redis>>

\* the select of get_or_create_partition (lines 61-70) found the rows ids; a row this
\* session has loaded before keeps the values it has
PartitionLoaded(c, ids) ==
    IF Cardinality(ids) > 1 THEN Finish(c, "MultipleResultsFound")
    ELSE IF ids = {} THEN clients' = [clients EXCEPT ![c].pc = "create_partition"]
    ELSE clients' = [clients EXCEPT
                        ![c].pc = "commit",
                        ![c].partition =
                            IF @ = <<>> THEN <<db.earning_partitions[TheOne(ids)]>>
                            ELSE IF @[1].id = TheOne(ids) THEN @
                            ELSE <<db.earning_partitions[TheOne(ids)]>>]

SelectPartitionStep(c) ==
    /\ clients[c].pc = "select_partition"
    /\ PartitionLoaded(c, SelectPartition(db, ConcurrentUser, clients[c].daily[1].id,
                              calculate_current_partition(now, settings), now.date))
    /\ UNCHANGED <<settings, now, db, users, session, extras, last, redis>>

\* lines 72-84: no row was found, one is added and committed
CreatePartition(c) ==
    /\ clients[c].pc = "create_partition"
    /\ \E row \in {EarningPartition(Len(db.earning_partitions) + 1, ConcurrentUser,
                                    clients[c].daily[1].id,
                                    calculate_current_partition(now, settings), now.date,
                                    now, settings)} :
               /\ db' = [db EXCEPT !.earning_partitions = Append(@, row)]
               /\ clients' = [clients EXCEPT ![c].pc = "commit", ![c].partition = <<row>>]
    /\ UNCHANGED <<settings, now, users, session, extras, last, redis>>

\* lines 201-240 with the rows P and D as the session holds them after the +=: the
\* UPDATEs set the changed columns to the session's values, the flags only when they
\* were set; the history row is inserted; the balance is raised
CommitRows(c, P, D, earned_usd, earned_luna) ==
    /\ db' = [db EXCEPT
                 !.earning_partitions[P.id] =
                     PartitionWith(@, P.earned_usd, P.earned_luna, P.clicks_count,
                                   P.is_partition_full, now),
                 !.daily_earnings[D.id] =
                     [@ EXCEPT !.total_earned_usd = D.total_earned_usd,
                               !.total_earned_luna = D.total_earned_luna,
                               !.updated_at = now,
                               !.is_daily_limit_reached =
                                   IF D.is_daily_limit_reached THEN TRUE ELSE @],
                 !.earning_history =
                     Append(@, EarningHistory(Len(@) + 1, ConcurrentUser, D.id, P.id, now,
                                              earned_usd, earned_luna, UsualPrice,
                                              UsualEnergy))]
    /\ users' = [users EXCEPT ![ConcurrentUser] = @ + earned_luna]
    /\ Finish(c, "accepted")

\* lines 181-199 on the rows the session holds
CommitEarned(c, earned_usd) ==
    IF FLe(earned_usd, FZero)
    THEN Finish(c, "rejected") /\ UNCHANGED <<db, users>>
    ELSE CommitRows(c,
             PartitionAfterClick(clients[c].partition[1], earned_usd,
                                 EarnedLuna(earned_usd, UsualPrice), now, settings),
             DailyAfterClick(clients[c].daily[1], earned_usd,
                             EarnedLuna(earned_usd, UsualPrice), now, settings),
             earned_usd, EarnedLuna(earned_usd, UsualPrice))

\* lines 181-240 in one step: the flush that precedes the select of line 236 sends the
\* UPDATEs of the partition and daily rows, and the store holds those rows locked until
\* the commit of line 240, so no other call on the same rows runs in between
Commit(c) ==
    /\ clients[c].pc = "commit"
    /\ CommitEarned(c, EarnedUsd(UsualEnergy, clients[c].partition[1].earned_usd,
                                 clients[c].daily[1].total_earned_usd, settings))
    /\ UNCHANGED <<settings, now, session, extras, last, redis>>

NextConcurrent ==
    \E c \in 1..NumClients :
        \/ Begin(c)
        \/ SelectDaily(c)
        \/ CreateDaily(c)
        \/ CanEarnStep(c)
        \/ SelectPartitionStep(c)
        \/ CreatePartition(c)
        \/ Commit(c)

SpecConcurrent == Init /\ [][NextConcurrent]_vars

\* ---------- a call for a user id that has no row in users ----------
MissingUser == 2

ClickMissingUser ==
    /\ extras < MaxExtras
    /\ extras' = extras + 1
    /\ ProcessClick(MissingUser, UsualEnergy, UsualPrice)

\* reset_partition is called on the session the failed call has left
ResetAfterFault ==
    /\ last.op = "process_click"
    /\ last.result.raised = "NoResultFound"
    /\ \E u \in {1, MissingUser} :
          \E n \in 1..settings.EARNING_PARTITIONS_COUNT : ResetPartition(u, n)
    /\ UNCHANGED extras

NextFault == Next \/ ClickMissingUser \/ ResetAfterFault

SpecFault == Init /\ [][NextFault]_vars

\* ---------- the default settings, one user clicking at full energy ----------
\* the call starts in the first or in the last partition window of the day
InitDefault ==
    /\ settings = DefaultSettings
    /\ now \in {[date |-> 1, sec |-> 0],
                [date |-> 1, sec |-> SecondsPerDay - SECONDS_PER_PARTITION]}
    /\ db = EmptyStore
    /\ session = EmptyStore
    /\ users = [u \in {1} |-> 0]
    /\ extras = 0
    /\ last = [op |-> "none"]
    /\ clients = [c \in 1..NumClients |-> IdleClient]
    /\ redis = EmptyRedis

\* clicks at full energy until one is turned down
ClickDefault ==
    /\ Quiet => last.op # "process_click"
    /\ \E price \in {Half, FFromInt(3)} :
          /\ last.op = "process_click" => last.luna_price = price
          /\ ProcessClick(1, UsualEnergy, price)
    /\ UNCHANGED extras

NextDefault == ClickDefault

SpecDefault == InitDefault /\ [][NextDefault]_vars

\* ---------- a day of eight windows, long enough to meet the daily limit ----------
\* the default caps with EARNING_PARTITIONS_COUNT = 8 and SECONDS_PER_PARTITION = 3 h:
\* six windows of 250 clicks bring the day close to $30, the seventh meets the limit
LongDaySettings ==
    [DAILY_EARNING_LIMIT_USD |-> DAILY_EARNING_LIMIT_USD, EARNING_PARTITIONS_COUNT |-> 8,
     EARNING_PER_PARTITION_USD |-> EARNING_PER_PARTITION_USD,
     SECONDS_PER_PARTITION |-> 10800, MAX_CLICKS_PER_PARTITION |-> MAX_CLICKS_PER_PARTITION]

InitLongDay ==
    /\ settings = LongDaySettings
    /\ now = [date |-> 1, sec |-> 0]
    /\ db = EmptyStore
    /\ session = EmptyStore
    /\ users = [u \in {1} |-> 0]
    /\ extras = 0
    /\ last = [op |-> "none"]
    /\ clients = [c \in 1..NumClients |-> IdleClient]
    /\ redis = EmptyRedis

\* the day's first click may come at half energy ($0.01)
ClickHalfFirst ==
    /\ last.op = "none"
    /\ ProcessClick(1, 100, UsualPrice)
    /\ UNCHANGED extras

\* clicks at full energy ($0.02) until one is turned down
ClickFull ==
    /\ Quiet => last.op # "process_click"
    /\ ProcessClick(1, UsualEnergy, UsualPrice)
    /\ UNCHANGED extras

\* after a click was turned down the user waits for the next window of the day
WaitForWindow ==
    /\ last.op = "process_click" /\ ~last.result.ok
    /\ NextWindow(now, settings).date = now.date
    /\ now' = NextWindow(now, settings)
    /\ last' = [op |-> "wait"]
    /\ UNCHANGED <<settings, db, users, session, extras, clients, redis>>

NextLongDay == ClickHalfFirst \/ ClickFull \/ WaitForWindow

SpecLongDay == InitLongDay /\ [][NextLongDay]_vars

\* ---------- a whole day under the default settings ----------
\* the user clicks at one energy through all the windows of the day: at half energy,
\* at 150, at full energy and beyond the multiplier's cap
FullDayEnergies == {100, 150, UsualEnergy, 300}

InitFullDay ==
    /\ settings = DefaultSettings
    /\ now = [date |-> 1, sec |-> 0]
    /\ db = EmptyStore
    /\ session = EmptyStore
    /\ users = [u \in {1} |-> 0]
    /\ extras = 0
    /\ last = [op |-> "none"]
    /\ clients = [c \in 1..NumClients |-> IdleClient]
    /\ redis = EmptyRedis

\* clicks at the energy of the run until one is turned down
ClickSteady ==
    /\ last.op = "process_click" => last.result.ok
    /\ \E e \in FullDayEnergies :
          /\ last.op # "none" => last.energy_consumed = e
          /\ ProcessClick(1, e, UsualPrice)
    /\ UNCHANGED extras

\* after a click was turned down the user waits for the next window of the day
WaitSteady ==
    /\ last.op = "process_click" /\ ~last.result.ok
    /\ NextWindow(now, settings).date = now.date
    /\ now' = NextWindow(now, settings)
    /\ last' = [op |-> "wait", energy_consumed |-> last.energy_consumed]
    /\ UNCHANGED <<settings, db, users, session, extras, clients, redis>>

NextFullDay == ClickSteady \/ WaitSteady

SpecFullDay == InitFullDay /\ [][NextFullDay]_vars

\* ---------- calculate_current_partition over the day ----------
\* window lengths that divide the day, that do not, that are longer than the day, and
\* partition counts that cover the day, fall short of it and go beyond it
AddressingSettings ==
    {[DefaultSettings EXCEPT !.SECONDS_PER_PARTITION = c[1],
                             !.EARNING_PARTITIONS_COUNT = c[2]] :
        c \in {<<SECONDS_PER_PARTITION, EARNING_PARTITIONS_COUNT>>, <<10800, 8>>,
               <<43200, 2>>, <<3600, 6>>, <<14401, 6>>, <<7, 6>>, <<1, 1>>,
               <<86400, 3>>, <<100000, 2>>}}

\* the times of day around the window boundaries, and the day's first and last second
TimesOfDay(cfg) ==
    {t \in {0, SecondsPerDay - 1}
            \cup {k * cfg.SECONDS_PER_PARTITION + d :
                     k \in 0..(cfg.EARNING_PARTITIONS_COUNT + 1), d \in {-1, 0, 1}} :
        0 <= t /\ t < SecondsPerDay}

InitAddressing ==
    /\ settings \in AddressingSettings
    /\ now = [date |-> 1, sec |-> 0]
    /\ db = EmptyStore
    /\ session = EmptyStore
    /\ users = [u \in {1} |-> 0]
    /\ extras = 0
    /\ last = [op |-> "none"]
    /\ clients = [c \in 1..NumClients |-> IdleClient]
    /\ redis = EmptyRedis

\* the service is asked for the partition at a later time of the day
CalculateCurrentPartition ==
    /\ \E t \in TimesOfDay(settings) :
          /\ t > now.sec
          /\ now' = [date |-> now.date, sec |-> t]
    /\ last' = [op |-> "calculate_current_partition",
                result |-> calculate_current_partition(now', settings)]
    /\ UNCHANGED <<settings, db, users, session, extras, clients, redis>>

NextAddressing == CalculateCurrentPartition

SpecAddressing == InitAddressing /\ [][NextAddressing]_vars

\* ---------- the status read during a day ----------
\* the default settings and two of the varied ones; at most MaxStatusClicks clicks
InitStatus ==
    /\ settings \in {DefaultSettings, LongDaySettings}
                       \cup {c \in SettingsInputs :
                                c.MAX_CLICKS_PER_PARTITION = SmallMaxClicks}
    /\ now = [date |-> 1, sec |-> 0]
    /\ db = EmptyStore
    /\ session = EmptyStore
    /\ users = [u \in {1} |-> 0]
    /\ extras = 0
    /\ last = [op |-> "none"]
    /\ clients = [c \in 1..NumClients |-> IdleClient]
    /\ redis = EmptyRedis

GetDailyEarningStatus(user_id) ==
    /\ last' = [op |-> "get_daily_earning_status", user_id |-> user_id,
                result |-> get_daily_earning_status(session, settings, now, user_id,
                                                    now.date)]
    /\ UNCHANGED <<settings, now, db, users, session, extras, clients, redis>>

GetStatus == last.op # "get_daily_earning_status" /\ GetDailyEarningStatus(1)

ClickBeforeStatus ==
    /\ Len(session.earning_history) < MaxStatusClicks
    /\ last.op # "process_click"
    /\ ProcessClick(1, UsualEnergy, UsualPrice)
    /\ UNCHANGED extras

\* the clock reaches a later time of the day
WaitWithinDay ==
    /\ last.op # "none"
    /\ \E t \in TimesOfDay(settings) :
          /\ t > now.sec
          /\ now' = [date |-> now.date, sec |-> t]
    /\ last' = [op |-> "wait"]
    /\ UNCHANGED <<settings, db, users, session, extras, clients, redis>>

NextStatus == GetStatus \/ ClickBeforeStatus \/ WaitWithinDay

SpecStatus == InitStatus /\ [][NextStatus]_vars

\* ---------- the energy cache ----------
\* runs of MaxEnergySteps calls and clock steps, counted in extras
\* what get_luna_price_binance returns: None, 0.0, a negative and a positive price
Prices == {<<>>, <<FZero>>, <<FNeg(Half)>>, <<FDiv(FFromInt(731), FFromInt(10000))>>}

\* balances and values a client sends: whole and fractional, below and above the
\* largest max_energy_per_part of Prices
SyncInputs == {<<FFromInt(100), FFromInt(50)>>, <<FZero, FFromInt(20000)>>,
               <<Half, FFromInt(50)>>}

\* the seconds the clock may advance in one step
ElapsedSeconds == {1, 7200, RechargeCap, UserEnergyTtl}

\* the settings of the energy endpoints: SECONDS_MAX_RECHARGE at its default and set
\* to one hour in the environment
EnergySettings ==
    {DefaultSettings @@ [SECONDS_MAX_RECHARGE |-> v] : v \in {SECONDS_MAX_RECHARGE, 3600}}

InitEnergy ==
    /\ settings \in EnergySettings
    /\ now = [date |-> 1, sec |-> 0]
    /\ db = EmptyStore
    /\ session = EmptyStore
    /\ users = [u \in {1} |-> 0]
    /\ extras = 0
    /\ last = [op |-> "none"]
    /\ clients = [c \in 1..NumClients |-> IdleClient]
    /\ redis = EmptyRedis

SyncEnergy ==
    /\ extras < MaxEnergySteps
    /\ extras' = extras + 1
    /\ \E telegram_id \in TelegramIds, i \in SyncInputs :
          \E r \in {sync_energy(redis, now, telegram_id, i[1], i[2])} :
              /\ redis' = r.redis
              /\ last' = [op |-> "sync_energy", telegram_id |-> telegram_id,
                          balance |-> i[1], value |-> i[2], at |-> now,
                          energy |-> r.energy, result |-> r.result]
    /\ UNCHANGED <<settings, now, db, users, session, clients>>

GetSyncEnergy ==
    /\ extras < MaxEnergySteps
    /\ extras' = extras + 1
    /\ \E telegram_id \in TelegramIds, price \in Prices :
          \E r \in {get_sync_energy(redis, settings, now, telegram_id, price)} :
              /\ redis' = r.redis
              /\ last' = [op |-> "get_sync_energy", telegram_id |-> telegram_id,
                          price |-> price, at |-> now,
                          price_fetched |-> RedisGet(redis.calc, now) = <<>>,
                          energy |-> r.energy, result |-> r.result]
    /\ UNCHANGED <<settings, now, db, users, session, clients>>

\* calculate_energy called by itself (api/v1/user.py line 114)
CalculateEnergy ==
    /\ extras < MaxEnergySteps
    /\ extras' = extras + 1
    /\ \E price \in Prices :
          \E r \in {calculate_energy(redis, settings, now, price)} :
              /\ redis' = r.redis
              /\ last' = [op |-> "calculate_energy", price |-> price, at |-> now,
                          price_fetched |-> TRUE,
                          energy |-> r.data, result |-> [raised |-> r.raised]]
    /\ UNCHANGED <<settings, now, db, users, session, clients>>

\* time passes
Elapse ==
    /\ extras < MaxEnergySteps
    /\ extras' = extras + 1
    /\ \E d \in ElapsedSeconds :
          now' = [date |-> now.date + (now.sec + d) \div SecondsPerDay,
                  sec |-> (now.sec + d) % SecondsPerDay]
    /\ UNCHANGED <<settings, db, users, session, last, clients, redis>>

NextEnergy == SyncEnergy \/ GetSyncEnergy \/ CalculateEnergy \/ Elapse

SpecEnergy == InitEnergy /\ [][NextEnergy]_vars

\* ---------- the balance synchronisation task: tasks/balance_sync.py ----------
\* Redis hands keys and values over as strings; a string is a sequence of characters
Digits == {"0", "1", "2", "3", "4", "5", "6", "7", "8", "9"}

DigitValue ==
    ("0" :> 0) @@ ("1" :> 1) @@ ("2" :> 2) @@ ("3" :> 3) @@ ("4" :> 4) @@
    ("5" :> 5) @@ ("6" :> 6) @@ ("7" :> 7) @@ ("8" :> 8) @@ ("9" :> 9)

AllDigits(str) == \A i \in 1..Len(str) : str[i] \in Digits

RECURSIVE DigitsValue(_)
DigitsValue(str) ==
    IF str = <<>> THEN 0
    ELSE 10 * DigitsValue(SubSeq(str, 1, Len(str) - 1)) + DigitValue[str[Len(str)]]

\* a string without its sign, and the sign
Unsigned(str) == IF str # <<>> /\ str[1] = "-" THEN Tail(str) ELSE str
SignOf(str) == IF str # <<>> /\ str[1] = "-" THEN -1 ELSE 1

\* int(str): decimal digits after an optional sign, ValueError otherwise
PyInt(str) ==
    IF Unsigned(str) # <<>> /\ AllDigits(Unsigned(str))
    THEN [raised |-> "", value |-> SignOf(str) * DigitsValue(Unsigned(str))]
    ELSE [raised |-> "ValueError", value |-> 0]

\* the characters of str before and after its first "."
BeforePoint(str) ==
    IF \E i \in 1..Len(str) : str[i] = "."
    THEN SubSeq(str, 1, (CHOOSE i \in 1..Len(str) :
                            str[i] = "." /\ \A j \in 1..(i - 1) : str[j] # ".") - 1)
    ELSE str

AfterPoint(str) ==
    IF \E i \in 1..Len(str) : str[i] = "."
    THEN SubSeq(str, Len(BeforePoint(str)) + 2, Len(str))
    ELSE <<>>

\* int(float(str)): a decimal number with an optional sign and an optional fraction,
\* cut to its whole part; ValueError for any other string
PyIntOfFloat(str) ==
    IF /\ AllDigits(BeforePoint(Unsigned(str)))
       /\ AllDigits(AfterPoint(Unsigned(str)))
       /\ Len(BeforePoint(Unsigned(str))) + Len(AfterPoint(Unsigned(str))) > 0
    THEN [raised |-> "", value |-> SignOf(str) * DigitsValue(BeforePoint(Unsigned(str)))]
    ELSE [raised |-> "ValueError", value |-> 0]

\* BaseSQLAlchemyRepository.get(telegram_id=...): the row, or ObjectNotFoundException
get(U, telegram_id) ==
    IF telegram_id \in DOMAIN U
    THEN [raised |-> "", obj |-> <<U[telegram_id]>>]
    ELSE [raised |-> "ObjectNotFoundException", obj |-> <<>>]

\* one pass of the loop of sync_balances_from_redis (lines 220-242) over the record
\* <<telegram_id_str, balance_str>>, c holding the rows and the three counters
SyncRecord(c, record, sync_time) ==
    IF PyInt(record[1]).raised # "" \/ PyIntOfFloat(record[2]).raised # ""
    THEN [c EXCEPT !.error_count = @ + 1]
    ELSE IF get(c.users, PyInt(record[1]).value).raised # ""
    THEN [c EXCEPT !.error_count = @ + 1]
    ELSE IF get(c.users, PyInt(record[1]).value).obj # <<>>
    THEN [c EXCEPT !.users[PyInt(record[1]).value] =
                       [balance |-> PyIntOfFloat(record[2]).value, sync_at |-> sync_time],
                   !.updated_count = @ + 1]
    ELSE [c EXCEPT !.not_found_count = @ + 1]

RECURSIVE SyncLoop(_, _, _, _)
SyncLoop(U, redis_data, n, sync_time) ==
    IF n = 0
    THEN [users |-> U, updated_count |-> 0, not_found_count |-> 0, error_count |-> 0]
    ELSE SyncRecord(SyncLoop(U, redis_data, n - 1, sync_time), redis_data[n], sync_time)

\* UserRepository.sync_balances_from_redis: the rows after the commit and the dict
\* returned, or the rows as they were and DatabaseException when the commit fails
sync_balances_from_redis(U, redis_data, sync_time, commit_ok) ==
    Let(SyncLoop(U, redis_data, Len(redis_data), sync_time),
        LAMBDA c :
            IF commit_ok
            THEN [raised |-> "", users |-> c.users,
                  result |-> [updated |-> c.updated_count,
                              not_found |-> c.not_found_count,
                              errors |-> c.error_count,
                              total_processed |-> Len(redis_data),
                              sync_time |-> sync_time]]
            ELSE [raised |-> "DatabaseException", users |-> U, result |-> <<>>])

\* sync_stats as _sync_balances_async creates it (lines 73-83; the start and end times
\* and the duration are left out)
SyncStats ==
    [total_processed |-> 0, updated_count |-> 0, not_found_count |-> 0,
     error_count |-> 0, redis_keys_found |-> 0, status |-> "failed"]

\* dict.update: the keys of other are set in stats
Update(stats, other) == other @@ stats

\* lines 104-118: the result is merged into the statistics and the status is set
SyncStatsAfter(stats, redis_data, r) ==
    IF r.raised # "" THEN Update(stats, [status |-> "error", error_message |-> r.raised])
    ELSE Let([Update(stats, r.result) EXCEPT !.total_processed = Len(redis_data)],
             LAMBDA merged :
                 [merged EXCEPT !.status = IF merged.error_count = 0
                                           THEN "completed"
                                           ELSE "completed_with_errors"])

\* _sync_balances_async with what _get_redis_balances returned, or with Redis down
_sync_balances_async(U, t, redis_up, redis_data, commit_ok) ==
    IF ~redis_up
    THEN [users |-> U,
          stats |-> Update(SyncStats, [status |-> "redis_error",
                                       error_message |-> "ConnectionError"])]
    ELSE IF redis_data = <<>>
    THEN [users |-> U, stats |-> [SyncStats EXCEPT !.status = "completed"]]
    ELSE Let(sync_balances_from_redis(U, redis_data, t, commit_ok),
             LAMBDA r :
                 [users |-> r.users,
                  stats |-> SyncStatsAfter([SyncStats EXCEPT
                                               !.redis_keys_found = Len(redis_data)],
                                           redis_data, r)])

MaxSyncRuns  == 2   \* runs of the task explored
MaxRedisKeys == 2   \* keys Redis holds when the task runs

\* keys of a user that exists, of one that may, and of one that never does; balances
\* written as a whole number, with a fraction, and not as a number
SyncKeys == {<<"1">>, <<"2">>, <<"7", "7">>}
BalanceStrings == {<<"1", "0", "0">>, <<"2", ".", "5">>, <<"a", "b", "c">>}

\* what _get_redis_balances returns: a dict, that is records with distinct keys
RedisData ==
    {d \in UNION {[1..n -> SyncKeys \X BalanceStrings] : n \in 0..MaxRedisKeys} :
        \A i, j \in 1..Len(d) : i # j => d[i][1] # d[j][1]}

UserRow == [balance |-> 0, sync_at |-> None]

InitSync ==
    /\ settings = DefaultSettings
    /\ now = [date |-> 1, sec |-> 0]
    /\ db = EmptyStore
    /\ session = EmptyStore
    /\ users \in {[u \in ids |-> UserRow] : ids \in {{1}, {1, 2}}}
    /\ extras = 0
    /\ last = [op |-> "none"]
    /\ clients = [c \in 1..NumClients |-> IdleClient]
    /\ redis = EmptyRedis

\* one run of sync_balances_task
SyncBalances ==
    /\ extras < MaxSyncRuns
    /\ extras' = extras + 1
    /\ \E redis_data \in RedisData, redis_up, commit_ok \in BOOLEAN :
          \E r \in {_sync_balances_async(users, now, redis_up, redis_data, commit_ok)} :
              /\ users' = r.users
              /\ last' = [op |-> "sync_balances", redis_data |-> redis_data,
                          users_before |-> users, stats |-> r.stats]
    /\ UNCHANGED <<settings, now, db, session, clients, redis>>

\* between two runs an hour passes
SyncLater ==
    /\ last.op = "sync_balances"
    /\ now.sec = 0
    /\ now' = [now EXCEPT !.sec = 3600]
    /\ UNCHANGED <<settings, db, users, session, extras, last, clients, redis>>

NextSync == SyncBalances \/ SyncLater

SpecSync == InitSync /\ [][NextSync]_vars

\* ---------- vocabulary of the claims ----------
Rows(table) == {table[i] : i \in 1..Len(table)}

PartitionCap == FFromInt(settings.EARNING_PER_PARTITION_USD)
DailyCap     == FFromInt(settings.DAILY_EARNING_LIMIT_USD)

\* this step is a call of process_click_earning (it is the last call afterwards, and
\* the clock, which no call moves, stands still)
ClickStep == last'.op = "process_click" /\ now' = now

\* the call of this step left every committed and every pending row as it was
NothingChanged == db' = db /\ session' = session /\ users' = users

\* today's daily record of the user has is_daily_limit_reached set
LimitReachedToday(user_id) ==
    \E i \in SelectDailyEarning(db, user_id, now.date) :
        db.daily_earnings[i].is_daily_limit_reached

\* C1: budget conservation. Every partition has earned_usd <= the per-partition cap
\* and every daily record total_earned_usd <= the daily cap; the partition cap is met
\* only with is_partition_full set, the daily cap only with is_daily_limit_reached set.
C1_BudgetConservation ==
    /\ \A p \in Rows(db.earning_partitions) :
          /\ FLe(p.earned_usd, PartitionCap)
          /\ p.earned_usd = PartitionCap => p.is_partition_full
    /\ \A d \in Rows(db.daily_earnings) :
          /\ FLe(d.total_earned_usd, DailyCap)
          /\ d.total_earned_usd = DailyCap => d.is_daily_limit_reached

\* an accepted click has brought a partition to its USD cap and the day to the daily cap
C1_Witness ==
    /\ last.op = "process_click" /\ last.result.ok
    /\ \E p \in Rows(db.earning_partitions) : p.earned_usd = PartitionCap
    /\ \E d \in Rows(db.daily_earnings) : d.total_earned_usd = DailyCap

\* C4: a call of process_click with luna_price <= 0 raises an error and leaves the
\* store as it was: no row is created and no counter, total, history row or balance
\* changes.
C4_InvalidPriceLeavesStore ==
    [][(ClickStep /\ ~FGt(last'.luna_price, FZero))
          => (last'.result.raised # "" /\ NothingChanged)]_vars

\* C5: with is_daily_limit_reached set on today's record, process_click returns
\* 'Daily earning limit reached' whatever the energy and the price, and changes no row.
C5_DailyLimitRejects ==
    [][(ClickStep /\ LimitReachedToday(last'.user_id))
          => /\ last'.result.raised = "" /\ ~last'.result.ok
             /\ last'.result.message = <<"Daily earning limit reached">>
             /\ NothingChanged]_vars

\* a click with other than the usual inputs was turned down for the daily limit
C5_Witness ==
    /\ last.op = "process_click"
    /\ last.result.message = <<"Daily earning limit reached">>
    /\ <<last.energy_consumed, last.luna_price>> \in VariedInputs
    /\ LimitReachedToday(last.user_id)

\* C6: total_earned_usd and total_earned_luna of a daily record never decrease.
C6_TotalsMonotonic ==
    [][\A i \in 1..Len(db.daily_earnings) :
          /\ FLe(db.daily_earnings[i].total_earned_usd,
                 db'.daily_earnings[i].total_earned_usd)
          /\ db.daily_earnings[i].total_earned_luna
                 <= db'.daily_earnings[i].total_earned_luna]_vars

RECURSIVE SumLuna(_, _, _, _)
SumLuna(table, n, field, value) ==
    IF n = 0 THEN 0
    ELSE SumLuna(table, n - 1, field, value)
             + (IF table[n][field] = value THEN table[n].earned_luna ELSE 0)

RECURSIVE SumUsd(_, _, _, _)
SumUsd(table, n, field, value) ==
    IF n = 0 THEN FZero
    ELSE IF table[n][field] = value
    THEN FAdd(SumUsd(table, n - 1, field, value), table[n].earned_usd)
    ELSE SumUsd(table, n - 1, field, value)

RECURSIVE SumDailyLuna(_, _, _)
SumDailyLuna(table, n, user_id) ==
    IF n = 0 THEN 0
    ELSE SumDailyLuna(table, n - 1, user_id)
             + (IF table[n].user_id = user_id THEN table[n].total_earned_luna ELSE 0)

Balance(user_id) == IF user_id \in DOMAIN users THEN users[user_id] ELSE 0

AllIdle == \A c \in 1..NumClients : clients[c].pc = "idle"

Accepted(field, value) ==
    Cardinality({j \in 1..Len(db.earning_history) : db.earning_history[j][field] = value})

\* C2: no update is lost under interleaving. Once every call has committed, each
\* partition's clicks_count is the number of accepted clicks on it, and earned_usd of
\* the partition, total_earned_usd and total_earned_luna of the daily record and the
\* user's balance are the sums of what the accepted calls returned.
C2_NoLostUpdate ==
    AllIdle =>
        /\ \A p \in Rows(db.earning_partitions) :
              /\ p.clicks_count = Accepted("partition_id", p.id)
              /\ p.earned_usd = SumUsd(db.earning_history, Len(db.earning_history),
                                       "partition_id", p.id)
        /\ \A d \in Rows(db.daily_earnings) :
              /\ d.total_earned_luna = SumLuna(db.earning_history, Len(db.earning_history),
                                               "daily_earning_id", d.id)
              /\ d.total_earned_usd = SumUsd(db.earning_history, Len(db.earning_history),
                                             "daily_earning_id", d.id)
        /\ Balance(ConcurrentUser) = SumLuna(db.earning_history, Len(db.earning_history),
                                             "user_id", ConcurrentUser)

\* C3: at most one DailyEarning row per (user, date) and at most one EarningPartition
\* row per (user, date, partition_number), also when calls run concurrently.
C3_OneRowPerKey ==
    /\ \A d1, d2 \in Rows(db.daily_earnings) :
          (d1.user_id = d2.user_id /\ d1.earning_date = d2.earning_date) => d1.id = d2.id
    /\ \A p1, p2 \in Rows(db.earning_partitions) :
          (/\ p1.user_id = p2.user_id
           /\ p1.partition_date = p2.partition_date
           /\ p1.partition_number = p2.partition_number) => p1.id = p2.id

TwoCents  == FDiv(FFromInt(2), FFromInt(100))
Tolerance == FDiv(FFromInt(1), FFromInt(1000000000))

\* what C10 says of the clicks: under the default settings every click at full energy
\* is accepted until 250 are, each earns $0.02, clicks_count counts them and
\* is_partition_full is set by the 250th and by no earlier one
DefaultClicks ==
    /\ last.op = "process_click" =>
          /\ last.result.raised = ""
          /\ last.result.ok \/ Len(db.earning_history) = MAX_CLICKS_PER_PARTITION
          /\ last.result.ok => last.result.earned_usd = TwoCents
    /\ \A h \in Rows(db.earning_history) : h.earned_usd = TwoCents
    /\ \A p \in Rows(db.earning_partitions) :
          /\ p.clicks_count = Len(db.earning_history)
          /\ p.clicks_count <= MAX_CLICKS_PER_PARTITION
          /\ p.is_partition_full <=> p.clicks_count = MAX_CLICKS_PER_PARTITION

\* C10 as stated: the 250 clicks leave earned_usd at exactly $5.00.
C10_ExactlyFiveDollars ==
    /\ DefaultClicks
    /\ \A p \in Rows(db.earning_partitions) :
          p.clicks_count = MAX_CLICKS_PER_PARTITION
              => p.earned_usd = FFromInt(EARNING_PER_PARTITION_USD)

\* C10 amended: the 250 clicks leave earned_usd below $5.00 by less than a billionth
\* of a dollar (the sum of 250 floats 0.02), so the partition is full by its click
\* count and not by its USD cap.
C10_FiveDollarsUpToRounding ==
    /\ DefaultClicks
    /\ \A p \in Rows(db.earning_partitions) :
          p.clicks_count = MAX_CLICKS_PER_PARTITION
              => /\ FLt(p.earned_usd, FFromInt(EARNING_PER_PARTITION_USD))
                 /\ FLt(FSub(FFromInt(EARNING_PER_PARTITION_USD), p.earned_usd), Tolerance)

\* the 250th click has been accepted and has filled the partition
C10_Witness ==
    /\ last.op = "process_click" /\ last.result.ok
    /\ \E p \in Rows(db.earning_partitions) :
          p.clicks_count = MAX_CLICKS_PER_PARTITION /\ p.is_partition_full

\* the committed partition rows that a click of the user would address now
AddressedPartitions(user_id) ==
    {p \in Rows(db.earning_partitions) :
        /\ p.user_id = user_id
        /\ p.partition_date = now.date
        /\ p.partition_number = calculate_current_partition(now, settings)}

\* the user's addressed partition has used up its clicks, and the day is still open
ClicksUsedUp(user_id) ==
    /\ ~LimitReachedToday(user_id)
    /\ \E p \in AddressedPartitions(user_id) : p.clicks_count >= p.max_clicks

Near(x, y) == FLe(FSub(x, y), Tolerance) /\ FLe(FSub(y, x), Tolerance)

OneCent == FDiv(FFromInt(1), FFromInt(100))
\* $29.99
CentBelowLimit == FDiv(FFromInt(2999), FFromInt(100))

\* today's committed daily record of the user, if there is one
TodaysRecords(D, user_id) ==
    {D.daily_earnings[i] : i \in SelectDailyEarning(D, user_id, now.date)}

\* the daily cap is $30, today's record stands at $29.99 and the partition addressed
\* is unopened or open with no less budget left than the day has
CentLeftToday(user_id) ==
    /\ settings.DAILY_EARNING_LIMIT_USD = 30
    /\ \E d \in TodaysRecords(db, user_id) :
          /\ Near(d.total_earned_usd, CentBelowLimit)
          /\ \A p \in AddressedPartitions(user_id) :
                /\ CanEarn(p, settings).can
                /\ FGe(FSub(PartitionCap, p.earned_usd), FSub(DailyCap, d.total_earned_usd))

\* C12: with the daily record at $29.99 of $30 and budget left in the partition, a
\* click whose raw earning is $0.02 is accepted with earned_usd clamped to $0.01 (to
\* what is left of the day), and the same call leaves total_earned_usd at $30.00
\* and sets is_daily_limit_reached.
C12_ClampedToLastCent ==
    [][(/\ ClickStep
        /\ last'.energy_consumed >= 200 /\ FGt(last'.luna_price, FZero)
        /\ CentLeftToday(last'.user_id))
          => /\ last'.result.raised = "" /\ last'.result.ok
             /\ Near(last'.result.earned_usd, OneCent)
             /\ \A d \in TodaysRecords(db, last'.user_id) :
                   last'.result.earned_usd = FSub(DailyCap, d.total_earned_usd)
             /\ \A d \in TodaysRecords(db', last'.user_id) :
                   d.total_earned_usd = DailyCap /\ d.is_daily_limit_reached]_vars

\* a click was accepted for the last cent of a $30 day
C12_Witness ==
    /\ settings.DAILY_EARNING_LIMIT_USD = 30
    /\ last.op = "process_click" /\ last.result.ok /\ last.energy_consumed = 200
    /\ Near(last.result.earned_usd, OneCent)
    /\ \E d \in TodaysRecords(db, last.user_id) :
          d.total_earned_usd = DailyCap /\ d.is_daily_limit_reached

\* C13: a click whose earning after the two clamps is <= 0 is turned down with 'No
\* earnings possible due to limits' and changes nothing: no daily record and no
\* partition is created and no row changes.
C13_NoEarningLeavesStore ==
    [][(ClickStep /\ last'.result.message = <<"No earnings possible due to limits">>)
          => (~last'.result.ok /\ NothingChanged)]_vars

\* the window that partition number r stands for at the time of day sec
InWindow(r, sec, cfg) ==
    /\ r \in 1..cfg.EARNING_PARTITIONS_COUNT
    /\ (r - 1) * cfg.SECONDS_PER_PARTITION <= sec
    /\ r < cfg.EARNING_PARTITIONS_COUNT => sec < r * cfg.SECONDS_PER_PARTITION

\* C14: calculate_current_partition returns min(floor(seconds since midnight /
\* seconds per partition) + 1, max partitions): the result is in 1..max partitions,
\* never decreases as the time of day advances, and partition p covers the seconds
\* from (p-1) * seconds per partition up to, not including, p * seconds per partition
\* (with the defaults 14400 s and 6 partitions these windows are the whole day).
C14_Addressing ==
    /\ [](last.op = "calculate_current_partition"
            => /\ InWindow(last.result, now.sec, settings)
               /\ (settings = DefaultSettings
                     => now.sec < last.result * SECONDS_PER_PARTITION))
    /\ [][(last.op = "calculate_current_partition"
              /\ last'.op = "calculate_current_partition")
             => last.result <= last'.result]_vars

\* at the defaults the last second of the day was found in partition 6
C14_Witness ==
    /\ settings = DefaultSettings
    /\ last.op = "calculate_current_partition"
    /\ now.sec = SecondsPerDay - 1
    /\ last.result = EARNING_PARTITIONS_COUNT

\* a step of reset_partition
ResetStep == last'.op = "reset_partition" /\ now' = now /\ last.op # "reset_partition"

\* C15: under process_click a partition only moves Unopened -> Open -> Full: its row
\* stays, and once is_partition_full is true no step other than a reset_partition
\* changes any field of the row.
C15_FullIsTerminal ==
    [][~ResetStep
         => /\ Len(db'.earning_partitions) >= Len(db.earning_partitions)
            /\ \A i \in DOMAIN db.earning_partitions :
                  db.earning_partitions[i].is_partition_full
                      => db'.earning_partitions[i] = db.earning_partitions[i]]_vars

\* the committed rows of today's partition partition_number of the user
TodaysPartition(user_id, partition_number) ==
    SelectPartitionOfDate(db, user_id, partition_number, now.date)

\* the committed row i is left with cleared counters, Open and without an end time
ClearedRow(i) ==
    /\ db'.earning_partitions[i].earned_usd = FZero
    /\ db'.earning_partitions[i].earned_luna = 0
    /\ db'.earning_partitions[i].clicks_count = 0
    /\ ~db'.earning_partitions[i].is_partition_full
    /\ db'.earning_partitions[i].partition_end_time = None

\* everything committed besides the partition rows ids is as it was
OnlyRowsChanged(ids) ==
    /\ DOMAIN db'.earning_partitions = DOMAIN db.earning_partitions
    /\ \A i \in DOMAIN db.earning_partitions \ ids :
          db'.earning_partitions[i] = db.earning_partitions[i]
    /\ db'.daily_earnings = db.daily_earnings
    /\ db'.earning_history = db.earning_history
    /\ users' = users

WindowEnd(t, cfg) ==
    IF calculate_current_partition(t, cfg) * cfg.SECONDS_PER_PARTITION >= SecondsPerDay
    THEN [date |-> t.date + 1, sec |-> 0]
    ELSE [date |-> t.date,
          sec |-> calculate_current_partition(t, cfg) * cfg.SECONDS_PER_PARTITION]

\* C17: get_daily_earning_status for today returns a result at every time of day, in
\* every partition and with or without a daily record, and its
\* next_partition_reset_time is the end of the partition window addressed now, a time
\* later than now.
C17_StatusAlways ==
    last.op = "get_daily_earning_status"
        => /\ last.result.raised = ""
           /\ last.result.next_partition_reset_time = WindowEnd(now, settings)
           /\ Before(now, last.result.next_partition_reset_time)

\* the snapshot of the user as the cache holds it now
Snapshot(telegram_id) == RedisGet(redis.energy[telegram_id], now)

\* C18: get_sync_energy never returns a value greater than the max_energy_per_part of
\* the parameters it read, whatever snapshot is stored, however much time has passed
\* since the sync, and when no snapshot is stored.
C18_EnergyCapped ==
    (last.op = "get_sync_energy" /\ last.result.raised = "")
        => FLe(last.result.value, last.energy[1].max_energy_per_part)

\* a snapshot above the maximum was read after the full recharge time and came back
\* as the maximum
C18_Witness ==
    /\ last.op = "get_sync_energy"
    /\ last.result.raised = ""
    /\ Snapshot(last.telegram_id) # <<>>
    /\ FGt(Snapshot(last.telegram_id)[1].value.value, last.energy[1].max_energy_per_part)
    /\ last.result.seconds_recharge = RechargeCap
    /\ last.result.value = last.energy[1].max_energy_per_part
    /\ FGt(last.energy[1].max_energy_per_part, FZero)

\* this step is a get_sync_energy for the user whose snapshot the step before has
\* stored, at the same time, and it found the energy parameters
GetRightAfterSync ==
    /\ last.op = "sync_energy"
    /\ last.at = now
    /\ now' = now
    /\ last'.op = "get_sync_energy"
    /\ last'.telegram_id = last.telegram_id
    /\ last'.energy # <<>>

\* C19: sync_energy(user, balance, v) with v not above max_energy_per_part, followed by
\* get_sync_energy(user) with no time elapsed, returns value v, that balance and
\* seconds_recharge 0, whatever snapshot the user had before.
C19_SyncThenGet ==
    [][(GetRightAfterSync /\ FLe(last.value, last'.energy[1].max_energy_per_part))
         => /\ last'.result.raised = ""
            /\ last'.result.value = last.value
            /\ FFromInt(last'.result.balance) = last.balance
            /\ last'.result.seconds_recharge = 0]_vars

\* this step ran calculate_energy, called by itself or by get_cached_energy on a miss,
\* and the price source returned None or a price that is not positive
CalculatedWithoutPrice ==
    /\ extras' = extras + 1
    /\ now' = now
    /\ \/ last'.op = "calculate_energy"
       \/ last'.op = "get_sync_energy" /\ RedisGet(redis.calc, now) = <<>>
    /\ \/ last'.price = <<>>
       \/ last'.price # <<>> /\ FLe(last'.price[1], FZero)

\* C20: when the price source returns None or a non-positive price, calculate_energy
\* fails with an error and the cache entry energy:calc is as it was: absent if it was
\* absent, unchanged if it was there.
C20_NoPriceNoCache ==
    [][CalculatedWithoutPrice
         => /\ last'.result.raised # ""
            /\ redis'.calc = redis.calc]_vars

\* the ids of the partition rows of the window (user, date, partition number) of row p,
\* and of the daily rows of the day (user, date) of row d
SameWindow(p) ==
    {q.id : q \in {r \in Rows(db.earning_partitions) :
                      /\ r.user_id = p.user_id
                      /\ r.partition_date = p.partition_date
                      /\ r.partition_number = p.partition_number}}

SameDay(d) ==
    {q.id : q \in {r \in Rows(db.daily_earnings) :
                      r.user_id = d.user_id /\ r.earning_date = d.earning_date}}

\* the history rows 1..n whose field is one of the ids, summed in the order of insertion
RECURSIVE SumUsdIn(_, _, _, _)
SumUsdIn(table, n, field, ids) ==
    IF n = 0 THEN FZero
    ELSE IF table[n][field] \in ids
    THEN FAdd(SumUsdIn(table, n - 1, field, ids), table[n].earned_usd)
    ELSE SumUsdIn(table, n - 1, field, ids)

\* C21: under any interleaving of concurrent process_click calls of one user in one
\* partition window, the history holds at most max_clicks accepted clicks of the
\* window, their earned_usd sums to at most the per-partition cap, and the earned_usd of
\* all history rows of one (user, date) sums to at most the daily cap.
C21_LimitsUnderInterleaving ==
    /\ \A p \in Rows(db.earning_partitions) :
          /\ Cardinality({j \in 1..Len(db.earning_history) :
                             db.earning_history[j].partition_id \in SameWindow(p)})
                 <= settings.MAX_CLICKS_PER_PARTITION
          /\ FLe(SumUsdIn(db.earning_history, Len(db.earning_history), "partition_id",
                          SameWindow(p)),
                 PartitionCap)
    /\ \A d \in Rows(db.daily_earnings) :
          FLe(SumUsdIn(db.earning_history, Len(db.earning_history), "daily_earning_id",
                       SameDay(d)),
              DailyCap)

\* the committed history only grows at its end
AppendOnly ==
    /\ Len(db'.earning_history) >= Len(db.earning_history)
    /\ SubSeq(db'.earning_history, 1, Len(db.earning_history)) = db.earning_history

\* the daily totals and the balances are the sums over the history
TotalsAreHistorySums ==
    /\ \A d \in Rows(db.daily_earnings) :
          /\ d.total_earned_usd = SumUsd(db.earning_history, Len(db.earning_history),
                                         "daily_earning_id", d.id)
          /\ d.total_earned_luna = SumLuna(db.earning_history, Len(db.earning_history),
                                           "daily_earning_id", d.id)
    /\ \A u \in DOMAIN users :
          users[u] = SumLuna(db.earning_history, Len(db.earning_history), "user_id", u)

PartitionsClicked(d) ==
    {p.partition_number :
        p \in {r \in Rows(db.earning_partitions) :
                  /\ r.user_id = d.user_id
                  /\ r.partition_date = d.earning_date
                  /\ Accepted("partition_id", r.id) > 0}}

\* C23: partitions_used of a daily record is the number of distinct partitions of its
\* (user, date) that have received at least one accepted click.
C23_PartitionsUsed ==
    \A d \in Rows(db.daily_earnings) :
        d.partitions_used = Cardinality(PartitionsClicked(d))

\* this step is a call that reads the energy parameters while energy:calc is cached
ReadWhileCached ==
    /\ extras' = extras + 1
    /\ now' = now
    /\ last'.op \in {"get_sync_energy", "calculate_energy"}
    /\ RedisGet(redis.calc, now) # <<>>

\* C24: while an unexpired energy:calc entry is cached, no operation fetches the price
\* or rewrites the entry, and every reader of the parameters gets the cached record.
C24_CachedUntilExpiry ==
    [][ReadWhileCached
         => /\ ~last'.price_fetched
            /\ redis'.calc = redis.calc
            /\ last'.energy = <<redis.calc[1].value>>]_vars

\* C25: in every record that calculate_energy caches, max_energy_per_part is the
\* record's own charge_per_second times SECONDS_MAX_RECHARGE, and discharge_per_click
\* is max_energy_per_part divided by MAX_CLICKS_PER_PARTITION (stated for the records
\* of a positive price).
C25_RecordConsistent ==
    (redis.calc # <<>> /\ FGt(redis.calc[1].value.current_price, FZero))
        => /\ redis.calc[1].value.max_energy_per_part
                 = FMul(redis.calc[1].value.charge_per_second,
                        FFromInt(settings.SECONDS_MAX_RECHARGE))
           /\ redis.calc[1].value.discharge_per_click
                 = FDiv(redis.calc[1].value.max_energy_per_part,
                        FFromInt(settings.MAX_CLICKS_PER_PARTITION))

\* the seconds from the sync of a snapshot until now
Elapsed(snapshot) == Timestamp(now) - Timestamp(snapshot.sync_at)

\* this step is a get_sync_energy that returned a result
GetStep ==
    /\ extras' = extras + 1
    /\ now' = now
    /\ last'.op = "get_sync_energy"
    /\ last'.result.raised = ""

\* value = min(snapshot value + charge_per_second * seconds_recharge, max_energy_per_part)
ProjectedFrom(snapshot, result, energy) ==
    result.value = FMin(FAdd(snapshot.value,
                             FMul(energy.charge_per_second,
                                  FFromInt(result.seconds_recharge))),
                        energy.max_energy_per_part)

\* C26: for a stored snapshot get_sync_energy returns seconds_recharge = min(now -
\* sync_at, the configured SECONDS_MAX_RECHARGE) and value = min(snapshot value +
\* charge_per_second * seconds_recharge, max_energy_per_part); with no snapshot it
\* returns balance 0, value max_energy_per_part and seconds_recharge 0.
C26_Projection ==
    [][GetStep
         => IF Snapshot(last'.telegram_id) # <<>>
            THEN /\ last'.result.seconds_recharge
                       = Min(Elapsed(Snapshot(last'.telegram_id)[1].value),
                             settings.SECONDS_MAX_RECHARGE)
                 /\ ProjectedFrom(Snapshot(last'.telegram_id)[1].value, last'.result,
                                  last'.energy[1])
            ELSE /\ last'.result.balance = 0
                 /\ last'.result.value = last'.energy[1].max_energy_per_part
                 /\ last'.result.seconds_recharge = 0]_vars
\* the step is a read of the user the last operation has read too, with no
\* sync_energy or calculate_energy in between and under the same energy parameters
SecondRead ==
    /\ GetStep
    /\ last.op = "get_sync_energy"
    /\ last.result.raised = ""
    /\ last'.telegram_id = last.telegram_id
    /\ last'.energy = last.energy

\* both reads found the same stored snapshot
SameSnapshot ==
    /\ RedisGet(redis.energy[last.telegram_id], last.at) # <<>>
    /\ Snapshot(last.telegram_id) = RedisGet(redis.energy[last.telegram_id], last.at)

\* C27: get_sync_energy never writes a snapshot, and of two reads of one user with no
\* sync_energy and no change of the energy parameters between them the later one
\* returns a value at least as large as the earlier one, both computed from the same
\* stored snapshot.
C27_ReadsOnlyGrow ==
    [][/\ GetStep => redis'.energy = redis.energy
       /\ (SecondRead /\ SameSnapshot) => FLe(last.result.value, last'.result.value)]_vars
\* the committed partition rows of other windows than the current one, and the
\* committed daily records of other dates than today, are as they were
OtherWindowsKept ==
    /\ Len(db'.earning_partitions) >= Len(db.earning_partitions)
    /\ \A i \in DOMAIN db.earning_partitions :
          (\/ db.earning_partitions[i].partition_date # now.date
           \/ db.earning_partitions[i].partition_number
                  # calculate_current_partition(now, settings))
              => db'.earning_partitions[i] = db.earning_partitions[i]

OtherDatesKept ==
    /\ Len(db'.daily_earnings) >= Len(db.daily_earnings)
    /\ \A i \in DOMAIN db.daily_earnings :
          db.daily_earnings[i].earning_date # now.date
              => db'.daily_earnings[i] = db.daily_earnings[i]

\* a click turned down for the daily limit or for its partition met today's record
\* with the limit reached, or a row of the current window that cannot earn
RejectedByTodaysRows ==
    /\ last'.result.message = <<"Daily earning limit reached">>
           => LimitReachedToday(last'.user_id)
    /\ (Len(last'.result.message) = 3 /\ last'.result.message[1] = "Partition")
           => \E i \in TodaysPartition(last'.user_id,
                                        calculate_current_partition(now, settings)) :
                  ~CanEarn(db.earning_partitions[i], settings).can

AllPartitionsFull(d) ==
    \A n \in 1..d.max_partitions :
        \E p \in Rows(db.earning_partitions) :
            /\ p.user_id = d.user_id /\ p.partition_date = d.earning_date
            /\ p.partition_number = n /\ p.is_partition_full

\* what the partition addressed by the click of this step has earned so far
AddressedUsd ==
    IF TodaysPartition(last'.user_id, calculate_current_partition(now, settings)) = {}
    THEN {FZero}
    ELSE {db.earning_partitions[i].earned_usd :
             i \in TodaysPartition(last'.user_id,
                                   calculate_current_partition(now, settings))}

\* the earning of the click of this step is what the partition clamp alone leaves
DailyClampIdle ==
    \A partition_usd \in AddressedUsd :
        last'.result.earned_usd
            = Clamp(FMul(base_earning_per_click, energy_multiplier(last'.energy_consumed)),
                    partition_usd, settings.EARNING_PER_PARTITION_USD)

FailedRecords ==
    {i \in 1..Len(last.redis_data) :
        \/ PyInt(last.redis_data[i][1]).raised # ""
        \/ PyIntOfFloat(last.redis_data[i][2]).raised # ""}

UpdatedRecords ==
    {i \in 1..Len(last.redis_data) \ FailedRecords :
        PyInt(last.redis_data[i][1]).value \in DOMAIN last.users_before}

NoUserRecords ==
    {i \in 1..Len(last.redis_data) \ FailedRecords :
        PyInt(last.redis_data[i][1]).value \notin DOMAIN last.users_before}

\* the last run got its data from Redis and committed
Synced ==
    /\ last.op = "sync_balances"
    /\ last.stats.status \in {"completed", "completed_with_errors"}

\* C30: the statistics of a run that synchronised tell what was done: updated_count,
\* not_found_count and error_count are the numbers of users updated, of keys with no
\* matching user and of records that failed, they add up to redis_keys_found, and the
\* status is 'completed_with_errors' exactly when a record failed.
C30_StatsTellWhatWasDone ==
    Synced =>
        /\ last.stats.updated_count = Cardinality(UpdatedRecords)
        /\ last.stats.not_found_count = Cardinality(NoUserRecords)
        /\ last.stats.error_count = Cardinality(FailedRecords)
        /\ last.stats.updated_count + last.stats.not_found_count + last.stats.error_count
               = last.stats.redis_keys_found
        /\ last.stats.status = "completed_with_errors" <=> FailedRecords # {}
====
